---- MODULE Spec2Model ----
(***************************************************************************)
(* RepoScan scanning engine: the file-pattern matcher (matcher.ts), the    *)
(* rule evaluator (matcher.ts), the rule catalog (rules/*.ts) and the      *)
(* tree-walking Scanner (scanner/index.ts).                                *)
(*                                                                         *)
(* Strings of the program are modelled as sequences of one-character       *)
(* strings, so that toLowerCase, endsWith, replace, split and the regular  *)
(* expression search are computed character by character.                  *)
(***************************************************************************)
EXTENDS Integers, Sequences, FiniteSets, TLC

(***************************************************************************)
(* Bounds of the model.                                                    *)
(***************************************************************************)
MaxTime == 2
MaxScans == 2
MaxFaults == 1
MaxRuns == 3

(***************************************************************************)
(* String primitives (JavaScript String.prototype).                        *)
(***************************************************************************)
UpperChars == <<"A","B","C","D","E","F","G","H","I","J","K","L","M",
                "N","O","P","Q","R","S","T","U","V","W","X","Y","Z">>
LowerChars == <<"a","b","c","d","e","f","g","h","i","j","k","l","m",
                "n","o","p","q","r","s","t","u","v","w","x","y","z">>
DigitChars == <<"0","1","2","3","4","5","6","7","8","9">>

SetOf(s) == {s[k] : k \in 1..Len(s)}

LowerChar(c) ==
  IF \E k \in 1..26 : UpperChars[k] = c
  THEN LowerChars[CHOOSE k \in 1..26 : UpperChars[k] = c]
  ELSE c

UpperChar(c) ==
  IF \E k \in 1..26 : LowerChars[k] = c
  THEN UpperChars[CHOOSE k \in 1..26 : LowerChars[k] = c]
  ELSE c

toLowerCase(s) == [k \in 1..Len(s) |-> LowerChar(s[k])]

toUpperCase(s) == [k \in 1..Len(s) |-> UpperChar(s[k])]

\* s.slice(from) with a 0-based index from
sliceFrom(s, from) == SubSeq(s, from + 1, Len(s))

\* s.slice(0, to) with a 0-based exclusive index to
sliceTo(s, to) == SubSeq(s, 1, IF to < Len(s) THEN to ELSE Len(s))

startsWith(s, p) == Len(p) <= Len(s) /\ SubSeq(s, 1, Len(p)) = p

endsWith(s, p) == Len(p) <= Len(s) /\ SubSeq(s, Len(s) - Len(p) + 1, Len(s)) = p

includes(s, p) == \E k \in 0..(Len(s) - Len(p)) : SubSeq(s, k + 1, k + Len(p)) = p

includesChar(s, c) == \E k \in 1..Len(s) : s[k] = c

\* s.replace(/\\/g, '/')
replaceBackslash(s) == [k \in 1..Len(s) |-> IF s[k] = "\\" THEN "/" ELSE s[k]]

\* s.lastIndexOf(c), 0-based, -1 when absent
lastIndexOf(s, c) ==
  IF includesChar(s, c)
  THEN (CHOOSE k \in 1..Len(s) : s[k] = c /\ \A j \in (k+1)..Len(s) : s[j] # c) - 1
  ELSE -1

\* s.split(sep) for a one-character separator: the sequence of segments
RECURSIVE split(_, _)
split(s, sep) ==
  IF ~includesChar(s, sep) THEN <<s>>
  ELSE LET k == CHOOSE i \in 1..Len(s) : s[i] = sep /\ \A j \in 1..(i-1) : s[j] # sep
       IN  <<SubSeq(s, 1, k - 1)>> \o split(SubSeq(s, k + 1, Len(s)), sep)

\* path.join(dir, name) relative to the scan root, on a POSIX host
pathJoin(dir, name) == IF dir = <<>> THEN name ELSE dir \o <<"/">> \o name

SeqContains(seq, x) == \E k \in 1..Len(seq) : seq[k] = x

(***************************************************************************)
(* Regular expressions (the subset of ECMAScript RegExp the program uses). *)
(* A pattern is a syntax tree; RegexEnds gives, in backtracking priority   *)
(* order, the positions where a match starting at position i can end, so   *)
(* its first element is the end of the match RegExp.prototype.exec finds.  *)
(***************************************************************************)
Chr(S) == [t |-> "chr", s |-> S, neg |-> FALSE]
NotChr(S) == [t |-> "chr", s |-> S, neg |-> TRUE]
AnyChar == [t |-> "any"]
Cat(a) == [t |-> "seq", a |-> a]
Alt(a) == [t |-> "alt", a |-> a]
Rep(r, min, max) == [t |-> "rep", r |-> r, min |-> min, max |-> max]
Star(r) == Rep(r, 0, -1)
Plus(r) == Rep(r, 1, -1)
Opt(r) == Rep(r, 0, 1)
Lit(cs) == Cat([k \in 1..Len(cs) |-> Chr({cs[k]})])

\* \s restricted to the white space of the modelled contents
WhiteSpace == {" ", "\t", "\n", "\r"}
LineTerminators == {"\n", "\r"}
AlphaNumChars == SetOf(UpperChars) \cup SetOf(LowerChars) \cup SetOf(DigitChars)
HexChars == SetOf(DigitChars) \cup {"a","b","c","d","e","f","A","B","C","D","E","F"}

\* order-preserving removal of duplicates
Dedup(seq) ==
  LET indexed == [k \in 1..Len(seq) |-> [x |-> seq[k], k |-> k]]
      first(e) == \A j \in 1..(e.k - 1) : seq[j] # e.x
      kept == SelectSeq(indexed, first)
  IN  [k \in 1..Len(kept) |-> kept[k].x]

\* concatenation of a sequence of sequences
RECURSIVE Flatten(_)
Flatten(seqs) ==
  IF Len(seqs) = 0 THEN <<>>
  ELSE IF Len(seqs) = 1 THEN seqs[1]
  ELSE Flatten(SubSeq(seqs, 1, Len(seqs) \div 2))
       \o Flatten(SubSeq(seqs, Len(seqs) \div 2 + 1, Len(seqs)))

CharMatches(c, node, flags) ==
  LET in == IF "i" \in flags
            THEN \E d \in node.s : LowerChar(d) = LowerChar(c)
            ELSE c \in node.s
  IN  IF node.neg THEN ~in ELSE in

RECURSIVE RegexEnds(_, _, _, _)
RECURSIVE RunEnds(_, _, _, _)
RECURSIVE SeqEnds(_, _, _, _, _)
RECURSIVE RepEnds(_, _, _, _, _)

RegexEnds(re, s, i, flags) ==
  CASE re.t = "chr" ->
         IF i <= Len(s) /\ CharMatches(s[i], re, flags) THEN <<i + 1>> ELSE <<>>
    [] re.t = "any" ->
         IF i <= Len(s) /\ ("s" \in flags \/ s[i] \notin LineTerminators)
         THEN <<i + 1>> ELSE <<>>
    [] re.t = "seq" -> SeqEnds(re.a, 1, s, <<i>>, flags)
    [] re.t = "alt" ->
         Dedup(Flatten([k \in 1..Len(re.a) |-> RegexEnds(re.a[k], s, i, flags)]))
    [] re.t = "rep" ->
         IF re.r.t \in {"chr", "any"} THEN RunEnds(re, s, i, flags)
         ELSE Dedup(RepEnds(re, s, i, 0, flags))

\* the ends of a[k..] started at each of the positions from, in order
SeqEnds(a, k, s, from, flags) ==
  IF k > Len(a) \/ from = <<>> THEN from
  ELSE SeqEnds(a, k + 1, s,
               Dedup(Flatten([j \in 1..Len(from) |-> RegexEnds(a[k], s, from[j], flags)])),
               flags)

\* greedy quantifier of a one-character atom: the longest run of matching
\* characters first, then one character less at a time, down to min
RunEnds(re, s, i, flags) ==
  LET ok(p) == RegexEnds(re.r, s, p, flags) # <<>>
      rest == Len(s) + 1 - i
      cap == IF re.max = -1 \/ rest < re.max THEN rest ELSE re.max
      ends(run) == [k \in 1..(run - re.min + 1) |-> i + run - (k - 1)]
  IN  ends(CHOOSE n \in 0..cap :
             (n = cap \/ ~ok(i + n)) /\ (\A p \in i..(i + n - 1) : ok(p)))

\* greedy quantifier: one more iteration first, then stopping here; an
\* iteration that consumes nothing is not repeated
RepEnds(re, s, i, n, flags) ==
  LET more(once) ==
        Flatten([j \in 1..Len(once) |->
                  IF once[j] = i
                  THEN (IF n + 1 >= re.min THEN <<i>> ELSE RepEnds(re, s, i, n + 1, flags))
                  ELSE RepEnds(re, s, once[j], IF n < re.min \/ re.max # -1 THEN n + 1 ELSE n,
                               flags)])
  IN  more(IF re.max = -1 \/ n < re.max THEN RegexEnds(re.r, s, i, flags) ELSE <<>>)
      \o (IF n >= re.min THEN <<i>> ELSE <<>>)

\* RegExp.prototype.exec from lastIndex: the leftmost match at or after
\* position from (1-based), or NoMatch
NoMatch == [index |-> -1, end |-> -1]

regexExec(re, s, from, flags) ==
  LET matchesAt(f) == RegexEnds(re, s, f, flags) # <<>>
      at(f) == [index |-> f - 1, end |-> RegexEnds(re, s, f, flags)[1] - 1]
  IN  IF \A f \in from..(Len(s) + 1) : ~matchesAt(f) THEN NoMatch
      ELSE at(CHOOSE g \in from..(Len(s) + 1) :
                matchesAt(g) /\ \A h \in from..(g - 1) : ~matchesAt(h))

\* RegExp.prototype.test of an anchored pattern ^re$
regexTestAnchored(re, s, flags) == SeqContains(RegexEnds(re, s, 1, flags), Len(s) + 1)

(***************************************************************************)
(* Pattern Matcher: matchFile (matcher.ts).                                *)
(***************************************************************************)
\* new RegExp('^' + pattern.replace(/\*/g, '.*').replace(/\//g, '\\/') + '$', 'i')
\* throws a SyntaxError on an unterminated group; of the characters with a
\* meaning in RegExp syntax the modelled file patterns use '*', '.' and '('
wildcardCompiles(pattern) == ~includesChar(pattern, "(")

\* the compiled wildcard pattern: '*' became '.*', '/' became '\/', and every
\* other character is left as RegExp source, so '.' is the any-character atom
wildcardRegex(pattern) ==
  Cat([k \in 1..Len(pattern) |->
        CASE pattern[k] = "*" -> Star(AnyChar)
          [] pattern[k] = "." -> AnyChar
          [] OTHER -> Chr({pattern[k]})])

\* the callback of patterns.some: "true", "false", or "throw"
matchPattern(normalizedPath, pattern) ==
  LET normalizedPattern == toLowerCase(pattern)
      bool(b) == IF b THEN "true" ELSE "false"
  IN  IF normalizedPath = normalizedPattern THEN "true"
      ELSE IF endsWith(normalizedPath, normalizedPattern) THEN "true"
      ELSE IF startsWith(pattern, <<"*", ".">>)
        THEN bool(endsWith(normalizedPath, sliceFrom(pattern, 1)))
      ELSE IF endsWith(pattern, <<"/">>)
        THEN bool(startsWith(normalizedPath, normalizedPattern))
      ELSE IF includesChar(pattern, "*")
        THEN IF ~wildcardCompiles(pattern) THEN "throw"
             ELSE bool(regexTestAnchored(wildcardRegex(pattern), normalizedPath, {"i"}))
      ELSE "false"

RECURSIVE someMatch(_, _, _)
someMatch(normalizedPath, patterns, k) ==
  IF k > Len(patterns) THEN "false"
  ELSE LET r == matchPattern(normalizedPath, patterns[k])
       IN  IF r = "false" THEN someMatch(normalizedPath, patterns, k + 1) ELSE r

matchFile(filePath, patterns) ==
  someMatch(toLowerCase(replaceBackslash(filePath)), patterns, 1)

(***************************************************************************)
(* Rule Evaluator: applyRule, applyRegexRule (matcher.ts).                 *)
(***************************************************************************)
MatchTruncation == 200

\* detect.pattern of a regex rule that new RegExp rejects
InvalidRegex == [t |-> "invalid"]

\* const { pattern, flags = 'gm' } = rule.detect; a rule without flags has
\* detect.flags = FlagsUndefined
DefaultFlags == {"g", "m"}
FlagsUndefined == {"undefined"}

\* regexFinding with match[0] not cut
regexFindingWholeMatch(rule, filePath, content, m) ==
  LET beforeMatch == sliceTo(content, m.index)
      lineNumber == Len(split(beforeMatch, "\n"))
      lastNewline == lastIndexOf(beforeMatch, "\n")
      column == m.index - lastNewline
  IN  [ruleId |-> rule.id, severity |-> rule.severity, file |-> filePath,
       has |-> {"line", "column", "match"},
       line |-> lineNumber, column |-> column,
       match |-> SubSeq(content, m.index + 1, m.end)]

\* regexFinding with the column counted from 0
regexFindingColumnFromZero(rule, filePath, content, m) ==
  LET beforeMatch == sliceTo(content, m.index)
      lineNumber == Len(split(beforeMatch, "\n"))
      lastNewline == lastIndexOf(beforeMatch, "\n")
      column == m.index - lastNewline - 1
  IN  [ruleId |-> rule.id, severity |-> rule.severity, file |-> filePath,
       has |-> {"line", "column", "match"},
       line |-> lineNumber, column |-> column,
       match |-> sliceTo(SubSeq(content, m.index + 1, m.end), MatchTruncation)]

regexFinding(rule, filePath, content, m) ==
  LET beforeMatch == sliceTo(content, m.index)
      lineNumber == Len(split(beforeMatch, "\n"))
      lastNewline == lastIndexOf(beforeMatch, "\n")
      column == m.index - lastNewline
  IN  [ruleId |-> rule.id, severity |-> rule.severity, file |-> filePath,
       has |-> {"line", "column", "match"},
       line |-> lineNumber, column |-> column,
       match |-> sliceTo(SubSeq(content, m.index + 1, m.end), MatchTruncation)]

\* the while loop with lastIndex advanced by two after an empty match
RECURSIVE execLoopSkipsTwo(_, _, _, _, _)
execLoopSkipsTwo(rule, filePath, content, flags, lastIndex) ==
  LET body(m) ==
        IF m = NoMatch THEN <<>>
        ELSE <<regexFinding(rule, filePath, content, m)>>
             \o execLoopSkipsTwo(rule, filePath, content, flags,
                                 IF m.end = m.index THEN m.end + 2 ELSE m.end)
  IN  body(regexExec(rule.detect.pattern, content, lastIndex + 1, flags))

\* the while loop over regex.exec(content) of a global RegExp
RECURSIVE execLoop(_, _, _, _, _)
execLoop(rule, filePath, content, flags, lastIndex) ==
  LET body(m) ==
        IF m = NoMatch THEN <<>>
        ELSE <<regexFinding(rule, filePath, content, m)>>
             \o execLoop(rule, filePath, content, flags,
                         IF m.end = m.index THEN m.end + 1 ELSE m.end)
  IN  body(regexExec(rule.detect.pattern, content, lastIndex + 1, flags))

\* the flags new RegExp accepts; u and v exclude each other
RegExpFlags == {"d", "g", "i", "m", "s", "u", "v", "y"}


\* the body of the try block of applyRegexRule: [findings, hang, throws].
\* new RegExp throws on a pattern or on flags it cannot compile.  hang is
\* when the while loop never ends, which is the case of a RegExp without
\* the g flag that matches: exec then ignores lastIndex and returns the same
\* first match for ever
regexTry(rule, filePath, content) ==
  LET flags == IF rule.detect.flags = FlagsUndefined THEN DefaultFlags ELSE rule.detect.flags
  IN  IF rule.detect.pattern.t = "invalid" \/ ~(flags \subseteq RegExpFlags /\ ~({"u", "v"} \subseteq flags))
      THEN [findings |-> <<>>, hang |-> FALSE, throws |-> TRUE]
      ELSE IF "g" \in flags
      THEN [findings |-> execLoop(rule, filePath, content, flags, 0), hang |-> FALSE,
            throws |-> FALSE]
      ELSE [findings |-> <<>>,
            hang |-> regexExec(rule.detect.pattern, content, 1, flags) # NoMatch,
            throws |-> FALSE]

\* try { ... } catch { }: what was pushed before the throw is returned
catch(attempt) == [attempt EXCEPT !.throws = FALSE]

\* applyRegexRule without its try and catch
applyRegexRuleUncaught(rule, filePath, content) == regexTry(rule, filePath, content)

applyRegexRule(rule, filePath, content) == catch(regexTry(rule, filePath, content))
(***************************************************************************)
(* JavaScript values of the JSON-path evaluation (matcher.ts): what        *)
(* JSON.parse returns, and undefined and functions, which property access  *)
(* can return.  A value is a record of its kind k and its payload: the     *)
(* boolean b, the number n, the characters s of a string or of the name of *)
(* a function, the elements a of an array or the members a of an object.   *)
(***************************************************************************)
JsValue(kind, b, n, s, a) == [k |-> kind, b |-> b, n |-> n, s |-> s, a |-> a]

JsUndefined == JsValue("undefined", FALSE, 0, <<>>, <<>>)
JsNum(n) == JsValue("number", FALSE, n, <<>>, <<>>)
JsStr(s) == JsValue("string", FALSE, 0, s, <<>>)
JsArr(a) == JsValue("array", FALSE, 0, <<>>, a)
JsObj(members) == JsValue("object", FALSE, 0, <<>>, members)

(***************************************************************************)
(* JSON.parse on texts made of objects, arrays, strings without escape     *)
(* sequences, non-negative integers, true, false and null, with white      *)
(* space between the tokens.  A parse step gives [ok, val, next]: whether  *)
(* a value was read at position i, the value, and the position after it.   *)
(***************************************************************************)
ParseFail == [ok |-> FALSE, val |-> JsUndefined, next |-> 0]

Parsed(val, next) == [ok |-> TRUE, val |-> val, next |-> next]

\* the first position at or after i whose character is not in S
skipChars(s, i, S) ==
  CHOOSE j \in i..(Len(s) + 1) :
    /\ \A p \in i..(j - 1) : s[p] \in S
    /\ j <= Len(s) => s[j] \notin S

\* parseInt(digits, 10) of a run of decimal digits
RECURSIVE parseInt(_)
parseInt(digits) ==
  IF digits = <<>> THEN 0
  ELSE 10 * parseInt(SubSeq(digits, 1, Len(digits) - 1))
       + (CHOOSE d \in 0..9 : DigitChars[d + 1] = digits[Len(digits)])

\* the decimal digits of a natural number
RECURSIVE numberToString(_)
numberToString(n) ==
  IF n < 10 THEN <<DigitChars[n + 1]>>
  ELSE numberToString(n \div 10) \o <<DigitChars[(n % 10) + 1]>>

\* a property key that is an array index: the canonical decimal digits of a
\* number.  Objects list these keys first, in ascending order.
IsIndex(key) ==
  /\ key # <<>>
  /\ \A k \in 1..Len(key) : key[k] \in SetOf(DigitChars)
  /\ numberToString(parseInt(key)) = key

\* a string token whose opening quote is at position i
parseString(s, i) ==
  LET closes == {j \in (i + 1)..Len(s) : s[j] = "\""}
      close(j) ==
        IF \E p \in (i + 1)..(j - 1) : s[p] \in {"\\", "\n", "\r", "\t"} THEN ParseFail
        ELSE Parsed(JsStr(SubSeq(s, i + 1, j - 1)), j + 1)
  IN  IF closes = {} THEN ParseFail
      ELSE close(CHOOSE j \in closes : \A h \in closes : j <= h)

RECURSIVE parseValue(_, _)
RECURSIVE parseElements(_, _, _)
RECURSIVE parseMembers(_, _, _)

parseValue(s, i) ==
  LET literal(j, word, val) ==
        IF j + Len(word) - 1 <= Len(s) /\ SubSeq(s, j, j + Len(word) - 1) = word
        THEN Parsed(val, j + Len(word))
        ELSE ParseFail
      number(j, end) ==
        IF s[j] = "0" /\ end > j + 1 THEN ParseFail
        ELSE Parsed(JsNum(parseInt(SubSeq(s, j, end - 1))), end)
      at(j) ==
        IF j > Len(s) THEN ParseFail
        ELSE CASE s[j] = "\"" -> parseString(s, j)
               [] s[j] = "{" -> parseMembers(s, j + 1, <<>>)
               [] s[j] = "[" -> parseElements(s, j + 1, <<>>)
               [] s[j] = "t" ->
                    literal(j, <<"t", "r", "u", "e">>, JsValue("boolean", TRUE, 0, <<>>, <<>>))
               [] s[j] = "f" ->
                    literal(j, <<"f", "a", "l", "s", "e">>,
                            JsValue("boolean", FALSE, 0, <<>>, <<>>))
               [] s[j] = "n" ->
                    literal(j, <<"n", "u", "l", "l">>, JsValue("null", FALSE, 0, <<>>, <<>>))
               [] s[j] \in SetOf(DigitChars) -> number(j, skipChars(s, j, SetOf(DigitChars)))
               [] OTHER -> ParseFail
  IN  at(skipChars(s, i, WhiteSpace))

\* the elements of an array after its '[' or after a ',': acc holds the
\* elements read so far
parseElements(s, i, acc) ==
  LET after(elem) ==
        LET sep(j) ==
              IF j > Len(s) THEN ParseFail
              ELSE IF s[j] = "]" THEN Parsed(JsArr(Append(acc, elem.val)), j + 1)
              ELSE IF s[j] = "," THEN parseElements(s, j + 1, Append(acc, elem.val))
              ELSE ParseFail
        IN  IF ~elem.ok THEN ParseFail ELSE sep(skipChars(s, elem.next, WhiteSpace))
      at(j) ==
        IF j <= Len(s) /\ s[j] = "]" /\ acc = <<>> THEN Parsed(JsArr(<<>>), j + 1)
        ELSE after(parseValue(s, j))
  IN  at(skipChars(s, i, WhiteSpace))

\* the members of an object after its '{' or after a ',': a later member
\* with the same key replaces the earlier one; the members are kept in the
\* order of the object's own properties
parseMembers(s, i, acc) ==
  LET put(key, val) ==
        IF \E k \in 1..Len(acc) : acc[k].key = key
        THEN [k \in 1..Len(acc) |-> IF acc[k].key = key THEN [key |-> key, val |-> val] ELSE acc[k]]
        ELSE IF ~IsIndex(key) THEN Append(acc, [key |-> key, val |-> val])
        ELSE LET before == SelectSeq(acc, LAMBDA mem :
                             IsIndex(mem.key) /\ parseInt(mem.key) < parseInt(key))
                 after == SelectSeq(acc, LAMBDA mem :
                            ~(IsIndex(mem.key) /\ parseInt(mem.key) < parseInt(key)))
             IN  before \o <<[key |-> key, val |-> val]>> \o after
      value(key, elem) ==
        LET sep(j) ==
              IF j > Len(s) THEN ParseFail
              ELSE IF s[j] = "}" THEN Parsed(JsObj(put(key.val.s, elem.val)), j + 1)
              ELSE IF s[j] = "," THEN parseMembers(s, j + 1, put(key.val.s, elem.val))
              ELSE ParseFail
        IN  IF ~elem.ok THEN ParseFail ELSE sep(skipChars(s, elem.next, WhiteSpace))
      colon(key, j) ==
        IF j > Len(s) \/ s[j] # ":" THEN ParseFail
        ELSE value(key, parseValue(s, j + 1))
      name(key) ==
        IF ~key.ok THEN ParseFail ELSE colon(key, skipChars(s, key.next, WhiteSpace))
      at(j) ==
        IF j > Len(s) THEN ParseFail
        ELSE IF s[j] = "}" /\ acc = <<>> THEN Parsed(JsObj(<<>>), j + 1)
        ELSE IF s[j] = "\"" THEN name(parseString(s, j))
        ELSE ParseFail
  IN  at(skipChars(s, i, WhiteSpace))

\* JSON.parse(content): [ok, val]; ok is FALSE when a SyntaxError is thrown
JSONparse(content) ==
  LET whole(r) ==
        IF r.ok /\ skipChars(content, r.next, WhiteSpace) = Len(content) + 1
        THEN [ok |-> TRUE, val |-> r.val]
        ELSE [ok |-> FALSE, val |-> JsUndefined]
  IN  whole(parseValue(content, 1))

(***************************************************************************)
(* JSON.stringify(value) without indentation: [defined, text].  It returns *)
(* undefined for undefined and for a function; inside an array these are   *)
(* written null, and inside an object the member is left out.              *)
(***************************************************************************)
\* the sequences of seqs joined with the separator sep between them
JoinWith(seqs, sep) ==
  Flatten([k \in 1..Len(seqs) |-> IF k = 1 THEN seqs[k] ELSE sep \o seqs[k]])

Quoted(s) == <<"\"">> \o s \o <<"\"">>

RECURSIVE stringifyText(_)
stringifyText(val) ==
  CASE val.k = "string" -> Quoted(val.s)
    [] val.k = "number" -> numberToString(val.n)
    [] val.k = "boolean" ->
         IF val.b THEN <<"t", "r", "u", "e">> ELSE <<"f", "a", "l", "s", "e">>
    [] val.k = "null" -> <<"n", "u", "l", "l">>
    [] val.k = "array" ->
         <<"[">> \o JoinWith([k \in 1..Len(val.a) |->
                               IF val.a[k].k \notin {"undefined", "function"} THEN stringifyText(val.a[k])
                               ELSE <<"n", "u", "l", "l">>], <<",">>) \o <<"]">>
    [] val.k = "object" ->
         LET kept == SelectSeq(val.a, LAMBDA mem : mem.val.k \notin {"undefined", "function"})
         IN  <<"{">> \o JoinWith([k \in 1..Len(kept) |->
                                   Quoted(kept[k].key) \o <<":">> \o stringifyText(kept[k].val)],
                                 <<",">>) \o <<"}">>

JSONstringify(val) ==
  IF val.k \notin {"undefined", "function"} THEN [defined |-> TRUE, text |-> stringifyText(val)]
  ELSE [defined |-> FALSE, text |-> <<>>]

(***************************************************************************)
(* value[key] of JavaScript, for a value that is neither null nor          *)
(* undefined: an own property, or else a property the value inherits from  *)
(* the prototype of its kind.                                              *)
(***************************************************************************)
InheritedMethods ==
  {<<"t", "o", "S", "t", "r", "i", "n", "g">>, <<"v", "a", "l", "u", "e", "O", "f">>,
   <<"h", "a", "s", "O", "w", "n", "P", "r", "o", "p", "e", "r", "t", "y">>}

\* a property of the prototype: constructor is the function Object, Array,
\* String, Number, Boolean or Function
inherited(val, key) ==
  IF key = <<"c", "o", "n", "s", "t", "r", "u", "c", "t", "o", "r">>
  THEN JsValue("function", FALSE, 0,
               CASE val.k = "object" -> <<"O", "b", "j", "e", "c", "t">>
                 [] val.k = "array" -> <<"A", "r", "r", "a", "y">>
                 [] val.k = "string" -> <<"S", "t", "r", "i", "n", "g">>
                 [] val.k = "number" -> <<"N", "u", "m", "b", "e", "r">>
                 [] val.k = "boolean" -> <<"B", "o", "o", "l", "e", "a", "n">>
                 [] val.k = "function" -> <<"F", "u", "n", "c", "t", "i", "o", "n">>,
               <<>>)
  ELSE IF key \in InheritedMethods THEN JsValue("function", FALSE, 0, key, <<>>)
  ELSE JsUndefined

getProperty(val, key) ==
  CASE val.k = "object" ->
         IF \E k \in 1..Len(val.a) : val.a[k].key = key
         THEN val.a[CHOOSE k \in 1..Len(val.a) : val.a[k].key = key].val
         ELSE inherited(val, key)
    [] val.k = "array" ->
         IF IsIndex(key)
         THEN (IF parseInt(key) < Len(val.a) THEN val.a[parseInt(key) + 1] ELSE JsUndefined)
         ELSE IF key = <<"l", "e", "n", "g", "t", "h">> THEN JsNum(Len(val.a))
         ELSE inherited(val, key)
    [] val.k = "string" ->
         IF IsIndex(key)
         THEN (IF parseInt(key) < Len(val.s) THEN JsStr(<<val.s[parseInt(key) + 1]>>)
               ELSE JsUndefined)
         ELSE IF key = <<"l", "e", "n", "g", "t", "h">> THEN JsNum(Len(val.s))
         ELSE inherited(val, key)
    [] val.k = "function" ->
         IF key = <<"n", "a", "m", "e">> THEN JsStr(val.s) ELSE inherited(val, key)
    [] val.k \in {"number", "boolean"} -> inherited(val, key)

\* Object.values(obj)
ObjectValues(val) == [k \in 1..Len(val.a) |-> val.a[k].val]

\* part.match(/^(\w+)\[(\d+)\]$/): [matched, key, index]
arrayMatch(part) ==
  LET word == Chr(AlphaNumChars \cup {"_"})
      digit == Chr(SetOf(DigitChars))
      open == CHOOSE k \in 1..Len(part) : part[k] = "["
  IN  IF regexTestAnchored(Cat(<<Plus(word), Chr({"["}), Plus(digit), Chr({"]"})>>), part, {})
      THEN [matched |-> TRUE, key |-> SubSeq(part, 1, open - 1),
            index |-> SubSeq(part, open + 1, Len(part) - 1)]
      ELSE [matched |-> FALSE, key |-> <<>>, index |-> <<>>]

\* getJsonPath where '*' does not return: the loop goes on with the segments
\* that follow it
RECURSIVE getJsonPathFromStarContinues(_, _, _)
getJsonPathFromStarContinues(current, parts, k) ==
  IF k > Len(parts) THEN current
  ELSE IF current.k \in {"null", "undefined"} THEN JsUndefined
  ELSE LET indexed(am) ==
             LET element(arr) ==
                   IF arr.k = "array"
                   THEN getJsonPathFromStarContinues(
                          IF parseInt(am.index) < Len(arr.a)
                          THEN arr.a[parseInt(am.index) + 1] ELSE JsUndefined,
                          parts, k + 1)
                   ELSE JsUndefined
             IN  element(getProperty(current, am.key))
           step(am) ==
             IF am.matched THEN indexed(am)
             ELSE IF parts[k] = <<"*">>
             THEN (IF current.k = "array"
                   THEN getJsonPathFromStarContinues(current, parts, k + 1)
                   ELSE IF current.k = "object"
                   THEN getJsonPathFromStarContinues(JsArr(ObjectValues(current)), parts, k + 1)
                   ELSE JsUndefined)
             ELSE getJsonPathFromStarContinues(getProperty(current, parts[k]), parts, k + 1)
       IN  step(arrayMatch(parts[k]))

\* the for loop of getJsonPath from parts[k] on
RECURSIVE getJsonPathFrom(_, _, _)
getJsonPathFrom(current, parts, k) ==
  IF k > Len(parts) THEN current
  ELSE IF current.k \in {"null", "undefined"} THEN JsUndefined
  ELSE LET indexed(am) ==
             LET element(arr) ==
                   IF arr.k = "array"
                   THEN getJsonPathFrom(
                          IF parseInt(am.index) < Len(arr.a)
                          THEN arr.a[parseInt(am.index) + 1] ELSE JsUndefined,
                          parts, k + 1)
                   ELSE JsUndefined
             IN  element(getProperty(current, am.key))
           step(am) ==
             IF am.matched THEN indexed(am)
             ELSE IF parts[k] = <<"*">>
             THEN (IF current.k = "array" THEN current
                   ELSE IF current.k = "object" THEN JsArr(ObjectValues(current))
                   ELSE JsUndefined)
             ELSE getJsonPathFrom(getProperty(current, parts[k]), parts, k + 1)
       IN  step(arrayMatch(parts[k]))

getJsonPath(obj, path) == getJsonPathFrom(obj, split(path, "."), 1)

\* [result, throws]: throws when the evaluation ends in a TypeError or a
\* SyntaxError
checkCondition(value, condition) ==
  LET returns(b) == [result |-> b, throws |-> FALSE]
      throw == [result |-> FALSE, throws |-> TRUE]
      \* the string that test() makes of what JSON.stringify returned
      stringOf(json) ==
        IF json.defined THEN json.text ELSE <<"u", "n", "d", "e", "f", "i", "n", "e", "d">>
  IN  CASE condition.op = "exists" -> returns(value.k \notin {"undefined", "null"})
        [] condition.op = "equals" ->
             returns(/\ value.k = condition.value.k
                     /\ value.k \in {"string", "number", "boolean", "null", "undefined"}
                     /\ value.b = condition.value.b
                     /\ value.n = condition.value.n
                     /\ value.s = condition.value.s)
        [] condition.op = "contains" ->
             IF value.k = "string" THEN returns(includes(value.s, condition.value.s))
             ELSE IF value.k = "array"
             THEN returns(\E k \in 1..Len(value.a) :
                            /\ value.a[k].k = "string"
                            /\ includes(value.a[k].s, condition.value.s))
             ELSE IF ~JSONstringify(value).defined THEN throw
             ELSE returns(includes(JSONstringify(value).text, condition.value.s))
        [] condition.op = "matches" ->
             IF condition.pattern.t = "invalid" THEN throw
             ELSE IF value.k = "string"
             THEN returns(regexExec(condition.pattern, value.s, 1, {}) # NoMatch)
             ELSE returns(regexExec(condition.pattern, stringOf(JSONstringify(value)), 1, {})
                            # NoMatch)
        [] OTHER -> returns(FALSE)

findJsonPathLine(content, path) ==
  LET parts == split(path, ".")
      \* part.replace(/\[\d+\]$/, '')
      withoutIndex(part) ==
        LET opens == {k \in 1..(Len(part) - 2) :
                        /\ part[k] = "["
                        /\ part[Len(part)] = "]"
                        /\ \A j \in (k + 1)..(Len(part) - 1) : part[j] \in SetOf(DigitChars)}
        IN  IF opens = {} THEN part
            ELSE SubSeq(part, 1, (CHOOSE k \in opens : \A h \in opens : k <= h) - 1)
      searchKey == withoutIndex(parts[Len(parts)])
      lines == split(content, "\n")
      found == {i \in 1..Len(lines) : includes(lines[i], Quoted(searchKey))}
  IN  IF found = {} THEN 1 ELSE CHOOSE i \in found : \A j \in found : i <= j

\* the body of the try block of applyJsonPathRule: [findings, hang, throws]
jsonPathTry(rule, filePath, content) ==
  LET json == JSONparse(content)
      thrown == [findings |-> <<>>, hang |-> FALSE, throws |-> TRUE]
      decide(value) ==
        LET emit(holds) ==
              IF holds.throws THEN thrown
              ELSE IF ~holds.result THEN [findings |-> <<>>, hang |-> FALSE, throws |-> FALSE]
              ELSE IF ~JSONstringify(value).defined THEN thrown
              ELSE [findings |->
                      <<[ruleId |-> rule.id, severity |-> rule.severity, file |-> filePath,
                         has |-> {"line", "match"},
                         line |-> findJsonPathLine(content, rule.detect.path), column |-> 0,
                         match |-> sliceTo(JSONstringify(value).text, MatchTruncation)]>>,
                    hang |-> FALSE, throws |-> FALSE]
        IN  emit(checkCondition(value, rule.detect.condition))
  IN  IF ~json.ok THEN thrown ELSE decide(getJsonPath(json.val, rule.detect.path))

applyJsonPathRule(rule, filePath, content) == catch(jsonPathTry(rule, filePath, content))
applyRule(rule, filePath, content) ==
  CASE rule.detect.type = "regex" -> applyRegexRule(rule, filePath, content)
    [] rule.detect.type = "json-path" -> applyJsonPathRule(rule, filePath, content)
    [] rule.detect.type = "file-exists" ->
         [findings |-> <<[ruleId |-> rule.id, severity |-> rule.severity,
                          file |-> filePath, has |-> {},
                          line |-> 0, column |-> 0, match |-> <<>>]>>,
          hang |-> FALSE, throws |-> FALSE]
    [] rule.detect.type = "custom" -> [findings |-> <<>>, hang |-> FALSE, throws |-> FALSE]
    [] OTHER -> [findings |-> <<>>, hang |-> FALSE, throws |-> FALSE]

(***************************************************************************)
(* The rule catalog (rules/*.ts): id, severity, filePatterns and flags of  *)
(* every rule.  The detect.pattern of the rules that apply to the files of *)
(* the modelled trees is given as a syntax tree; the pattern of any other  *)
(* rule is PatternNotModelled, which no operator of the evaluator accepts, *)
(* so that evaluating such a rule stops the model checker.                 *)
(***************************************************************************)
PatternNotModelled == [t |-> "not-modelled"]

\* the character U+0060, which the parser does not accept in a string
Backtick == "U+0060"

RegexRule(id, severity, filePatterns, pattern, flags) ==
  [id |-> id, severity |-> severity, filePatterns |-> filePatterns,
   detect |-> [type |-> "regex", pattern |-> pattern, flags |-> flags]]

Re_vscode_task_auto_run ==
  Cat(<<Lit(<<"\"","r","u","n","O","n","\"">>), Star(Chr(WhiteSpace)), Chr({":"}), Star(Chr(WhiteSpace)), Lit(<<"\"","f","o","l","d","e","r","O","p","e","n","\"">>)>>)

Re_vscode_task_hidden_terminal ==
  Cat(<<Lit(<<"\"","r","e","v","e","a","l","\"">>), Star(Chr(WhiteSpace)), Chr({":"}), Star(Chr(WhiteSpace)), Lit(<<"\"","n","e","v","e","r","\"">>)>>)

Re_vscode_task_background ==
  Cat(<<Lit(<<"\"","i","s","B","a","c","k","g","r","o","u","n","d","\"">>), Star(Chr(WhiteSpace)), Chr({":"}), Star(Chr(WhiteSpace)), Lit(<<"t","r","u","e">>)>>)

Re_vscode_task_auto_close ==
  Cat(<<Lit(<<"\"","c","l","o","s","e","\"">>), Star(Chr(WhiteSpace)), Chr({":"}), Star(Chr(WhiteSpace)), Lit(<<"t","r","u","e">>)>>)

Re_vscode_task_base64_command ==
  Cat(<<Alt(<<Lit(<<"a","t","o","b">>), Lit(<<"b","t","o","a">>), Lit(<<"b","a","s","e","6","4">>), Lit(<<"-","-","d","e","c","o","d","e">>), Lit(<<"-","d">>)>>), Star(Chr(WhiteSpace)), Opt(Chr({"'","\""})), Rep(Chr(AlphaNumChars \cup {"+","/","="}), 20, -1)>>)

Re_vscode_task_curl_wget ==
  Cat(<<Alt(<<Lit(<<"c","u","r","l">>), Lit(<<"w","g","e","t">>), Lit(<<"f","e","t","c","h">>)>>), Plus(Chr(WhiteSpace)), Star(NotChr({"|"})), Chr({"|"}), Star(Chr(WhiteSpace)), Alt(<<Lit(<<"s","h">>), Lit(<<"b","a","s","h">>), Lit(<<"n","o","d","e">>), Lit(<<"p","y","t","h","o","n">>)>>)>>)

Re_vscode_task_suspicious_command ==
  Alt(<<Cat(<<Lit(<<"n","c">>), Plus(Chr(WhiteSpace)), Chr({"-"})>>), Lit(<<"n","c","a","t">>), Lit(<<"n","e","t","c","a","t">>), Lit(<<"/","d","e","v","/","t","c","p">>), Lit(<<"m","k","f","i","f","o">>), Cat(<<Chr({">"}), Star(Chr(WhiteSpace)), Lit(<<"/","d","e","v","/","n","u","l","l">>)>>), Lit(<<"2",">","&","1">>), Lit(<<"$","(">>), Cat(<<Chr({Backtick}), Plus(NotChr({Backtick})), Chr({Backtick})>>)>>)

Re_vscode_task_env_exfil ==
  Cat(<<Chr({"$"}), Opt(Chr({"{"})), Lit(<<"e","n","v">>), Opt(Chr({":","."})), Alt(<<Lit(<<"P","R","I","V","A","T","E">>), Lit(<<"S","E","C","R","E","T">>), Lit(<<"K","E","Y">>), Lit(<<"T","O","K","E","N">>), Lit(<<"P","A","S","S","W","O","R","D">>), Lit(<<"M","N","E","M","O","N","I","C">>), Lit(<<"S","E","E","D">>)>>)>>)

Re_vscode_hidden_file ==
  AnyChar

Re_repo_hardcoded_key ==
  Cat(<<Alt(<<Cat(<<Lit(<<"a","p","i">>), Opt(Chr({"_","-"})), Lit(<<"k","e","y">>)>>), Cat(<<Lit(<<"a","p","i">>), Opt(Chr({"_","-"})), Lit(<<"s","e","c","r","e","t">>)>>), Cat(<<Lit(<<"a","c","c","e","s","s">>), Opt(Chr({"_","-"})), Lit(<<"t","o","k","e","n">>)>>), Cat(<<Lit(<<"p","r","i","v","a","t","e">>), Opt(Chr({"_","-"})), Lit(<<"k","e","y">>)>>)>>), Star(Chr(WhiteSpace)), Chr({"=",":"}), Star(Chr(WhiteSpace)), Chr({"'","\""}), Rep(Chr(AlphaNumChars), 20, -1), Chr({"'","\""})>>)

Re_repo_hex_private_key ==
  Cat(<<Opt(Lit(<<"0","x">>)), Rep(Chr(HexChars), 64, 64)>>)

vscodeRules == <<
  RegexRule("vscode-task-auto-run", "high",
    <<<<".","v","s","c","o","d","e","/","t","a","s","k","s",".","j","s","o","n">>, <<"t","a","s","k","s",".","j","s","o","n">>>>,
    Re_vscode_task_auto_run, {"g","i"}),
  RegexRule("vscode-task-hidden-terminal", "high",
    <<<<".","v","s","c","o","d","e","/","t","a","s","k","s",".","j","s","o","n">>, <<"t","a","s","k","s",".","j","s","o","n">>>>,
    Re_vscode_task_hidden_terminal, {"g","i"}),
  RegexRule("vscode-task-background", "medium",
    <<<<".","v","s","c","o","d","e","/","t","a","s","k","s",".","j","s","o","n">>, <<"t","a","s","k","s",".","j","s","o","n">>>>,
    Re_vscode_task_background, {"g","i"}),
  RegexRule("vscode-task-auto-close", "medium",
    <<<<".","v","s","c","o","d","e","/","t","a","s","k","s",".","j","s","o","n">>, <<"t","a","s","k","s",".","j","s","o","n">>>>,
    Re_vscode_task_auto_close, {"g","i"}),
  RegexRule("vscode-task-base64-command", "high",
    <<<<".","v","s","c","o","d","e","/","t","a","s","k","s",".","j","s","o","n">>, <<"t","a","s","k","s",".","j","s","o","n">>>>,
    Re_vscode_task_base64_command, {"g","i"}),
  RegexRule("vscode-task-curl-wget", "high",
    <<<<".","v","s","c","o","d","e","/","t","a","s","k","s",".","j","s","o","n">>, <<"t","a","s","k","s",".","j","s","o","n">>>>,
    Re_vscode_task_curl_wget, {"g","i"}),
  RegexRule("vscode-task-suspicious-command", "medium",
    <<<<".","v","s","c","o","d","e","/","t","a","s","k","s",".","j","s","o","n">>, <<"t","a","s","k","s",".","j","s","o","n">>>>,
    Re_vscode_task_suspicious_command, {"g","i"}),
  RegexRule("vscode-task-env-exfil", "high",
    <<<<".","v","s","c","o","d","e","/","t","a","s","k","s",".","j","s","o","n">>, <<"t","a","s","k","s",".","j","s","o","n">>>>,
    Re_vscode_task_env_exfil, {"g","i"}),
  RegexRule("vscode-settings-terminal-profile", "medium",
    <<<<".","v","s","c","o","d","e","/","s","e","t","t","i","n","g","s",".","j","s","o","n">>, <<"s","e","t","t","i","n","g","s",".","j","s","o","n">>>>,
    PatternNotModelled, {"g","i"}),
  RegexRule("vscode-settings-git-path-override", "high",
    <<<<".","v","s","c","o","d","e","/","s","e","t","t","i","n","g","s",".","j","s","o","n">>, <<"s","e","t","t","i","n","g","s",".","j","s","o","n">>>>,
    PatternNotModelled, {"g","i"}),
  RegexRule("vscode-settings-python-path-override", "medium",
    <<<<".","v","s","c","o","d","e","/","s","e","t","t","i","n","g","s",".","j","s","o","n">>, <<"s","e","t","t","i","n","g","s",".","j","s","o","n">>>>,
    PatternNotModelled, {"g","i"}),
  RegexRule("vscode-launch-prelaunch-task", "low",
    <<<<".","v","s","c","o","d","e","/","l","a","u","n","c","h",".","j","s","o","n">>, <<"l","a","u","n","c","h",".","j","s","o","n">>>>,
    PatternNotModelled, {"g","i"}),
  RegexRule("vscode-launch-runtime-override", "medium",
    <<<<".","v","s","c","o","d","e","/","l","a","u","n","c","h",".","j","s","o","n">>, <<"l","a","u","n","c","h",".","j","s","o","n">>>>,
    PatternNotModelled, {"g","i"}),
  RegexRule("vscode-launch-env-injection", "low",
    <<<<".","v","s","c","o","d","e","/","l","a","u","n","c","h",".","j","s","o","n">>, <<"l","a","u","n","c","h",".","j","s","o","n">>>>,
    PatternNotModelled, {"g","i"}),
  RegexRule("vscode-extensions-unknown-publisher", "low",
    <<<<".","v","s","c","o","d","e","/","e","x","t","e","n","s","i","o","n","s",".","j","s","o","n">>, <<"e","x","t","e","n","s","i","o","n","s",".","j","s","o","n">>>>,
    PatternNotModelled, {"g","i"}),
  RegexRule("vscode-executable-file", "high",
    <<<<".","v","s","c","o","d","e","/","*",".","s","h">>, <<".","v","s","c","o","d","e","/","*",".","b","a","t">>, <<".","v","s","c","o","d","e","/","*",".","c","m","d">>, <<".","v","s","c","o","d","e","/","*",".","p","s","1">>>>,
    PatternNotModelled, {"g"}),
  RegexRule("vscode-hidden-file", "medium",
    <<<<".","v","s","c","o","d","e","/",".","*">>>>,
    Re_vscode_hidden_file, {"g"})>>

javascriptRules == <<
  RegexRule("js-postinstall-script", "medium",
    <<<<"p","a","c","k","a","g","e",".","j","s","o","n">>>>,
    PatternNotModelled, {"g","i"}),
  RegexRule("js-preinstall-script", "medium",
    <<<<"p","a","c","k","a","g","e",".","j","s","o","n">>>>,
    PatternNotModelled, {"g","i"}),
  RegexRule("js-prepare-script", "low",
    <<<<"p","a","c","k","a","g","e",".","j","s","o","n">>>>,
    PatternNotModelled, {"g","i"}),
  RegexRule("js-child-process-exec", "medium",
    <<<<"*",".","j","s">>, <<"*",".","t","s">>, <<"*",".","m","j","s">>, <<"*",".","c","j","s">>, <<"*",".","j","s","x">>, <<"*",".","t","s","x">>>>,
    PatternNotModelled, {"g","i"}),
  RegexRule("js-eval-usage", "high",
    <<<<"*",".","j","s">>, <<"*",".","t","s">>, <<"*",".","m","j","s">>, <<"*",".","c","j","s">>, <<"*",".","j","s","x">>, <<"*",".","t","s","x">>>>,
    PatternNotModelled, {"g"}),
  RegexRule("js-dynamic-import-url", "high",
    <<<<"*",".","j","s">>, <<"*",".","t","s">>, <<"*",".","m","j","s">>, <<"*",".","c","j","s">>, <<"*",".","j","s","x">>, <<"*",".","t","s","x">>>>,
    PatternNotModelled, {"g","i"}),
  RegexRule("js-wallet-signing", "medium",
    <<<<"*",".","j","s">>, <<"*",".","t","s">>, <<"*",".","m","j","s">>, <<"*",".","c","j","s">>, <<"*",".","j","s","x">>, <<"*",".","t","s","x">>>>,
    PatternNotModelled, {"g","i"}),
  RegexRule("js-unlimited-approval", "high",
    <<<<"*",".","j","s">>, <<"*",".","t","s">>, <<"*",".","m","j","s">>, <<"*",".","c","j","s">>, <<"*",".","j","s","x">>, <<"*",".","t","s","x">>>>,
    PatternNotModelled, {"g","i"}),
  RegexRule("js-private-key-handling", "high",
    <<<<"*",".","j","s">>, <<"*",".","t","s">>, <<"*",".","m","j","s">>, <<"*",".","c","j","s">>, <<"*",".","j","s","x">>, <<"*",".","t","s","x">>>>,
    PatternNotModelled, {"g"}),
  RegexRule("js-rpc-override", "medium",
    <<<<"*",".","j","s">>, <<"*",".","t","s">>, <<"*",".","m","j","s">>, <<"*",".","c","j","s">>, <<"*",".","j","s","x">>, <<"*",".","t","s","x">>>>,
    PatternNotModelled, {"g","i"}),
  RegexRule("js-obfuscated-code", "high",
    <<<<"*",".","j","s">>, <<"*",".","t","s">>, <<"*",".","m","j","s">>, <<"*",".","c","j","s">>>>,
    PatternNotModelled, {"g","i"}),
  RegexRule("js-base64-decode", "high",
    <<<<"*",".","j","s">>, <<"*",".","t","s">>, <<"*",".","m","j","s">>, <<"*",".","c","j","s">>, <<"*",".","j","s","x">>, <<"*",".","t","s","x">>>>,
    PatternNotModelled, {"g","i"}),
  RegexRule("js-fetch-unknown-endpoint", "low",
    <<<<"*",".","j","s">>, <<"*",".","t","s">>, <<"*",".","m","j","s">>, <<"*",".","c","j","s">>, <<"*",".","j","s","x">>, <<"*",".","t","s","x">>>>,
    PatternNotModelled, {"g","i"})>>

pythonRules == <<
  RegexRule("py-setup-cmdclass", "high",
    <<<<"s","e","t","u","p",".","p","y">>>>,
    PatternNotModelled, {"g","i"}),
  RegexRule("py-setup-exec", "high",
    <<<<"s","e","t","u","p",".","p","y">>>>,
    PatternNotModelled, {"g"}),
  RegexRule("py-setup-subprocess", "high",
    <<<<"s","e","t","u","p",".","p","y">>>>,
    PatternNotModelled, {"g","i"}),
  RegexRule("py-pyproject-scripts", "low",
    <<<<"p","y","p","r","o","j","e","c","t",".","t","o","m","l">>>>,
    PatternNotModelled, {"g","i"}),
  RegexRule("py-exec-eval", "medium",
    <<<<"*",".","p","y">>>>,
    PatternNotModelled, {"g"}),
  RegexRule("py-subprocess", "low",
    <<<<"*",".","p","y">>>>,
    PatternNotModelled, {"g","i"}),
  RegexRule("py-env-secrets", "medium",
    <<<<"*",".","p","y">>>>,
    PatternNotModelled, {"g","i"}),
  RegexRule("py-private-key", "high",
    <<<<"*",".","p","y">>>>,
    PatternNotModelled, {"g"}),
  RegexRule("py-requests-unknown", "low",
    <<<<"*",".","p","y">>>>,
    PatternNotModelled, {"g","i"}),
  RegexRule("py-socket-connection", "medium",
    <<<<"*",".","p","y">>>>,
    PatternNotModelled, {"g","i"}),
  RegexRule("py-init-execution", "low",
    <<<<"_","_","i","n","i","t","_","_",".","p","y">>>>,
    PatternNotModelled, {"g","i"}),
  RegexRule("py-base64-exec", "high",
    <<<<"*",".","p","y">>>>,
    PatternNotModelled, {"g","i","s"}),
  RegexRule("py-marshal-loads", "high",
    <<<<"*",".","p","y">>>>,
    PatternNotModelled, {"g","i"})>>

shellRules == <<
  RegexRule("sh-curl-bash", "high",
    <<<<"*",".","s","h">>, <<"*",".","b","a","s","h">>, <<"*",".","z","s","h">>, <<"M","a","k","e","f","i","l","e">>, <<"m","a","k","e","f","i","l","e">>>>,
    PatternNotModelled, {"g","i"}),
  RegexRule("sh-eval-curl", "high",
    <<<<"*",".","s","h">>, <<"*",".","b","a","s","h">>, <<"*",".","z","s","h">>>>,
    PatternNotModelled, {"g","i"}),
  RegexRule("sh-background-nohup", "medium",
    <<<<"*",".","s","h">>, <<"*",".","b","a","s","h">>, <<"*",".","z","s","h">>>>,
    PatternNotModelled, {"g","i"}),
  RegexRule("sh-redirect-null", "low",
    <<<<"*",".","s","h">>, <<"*",".","b","a","s","h">>, <<"*",".","z","s","h">>>>,
    PatternNotModelled, {"g","i"}),
  RegexRule("sh-disown-background", "medium",
    <<<<"*",".","s","h">>, <<"*",".","b","a","s","h">>, <<"*",".","z","s","h">>>>,
    PatternNotModelled, {"g","i"}),
  RegexRule("sh-reverse-shell", "high",
    <<<<"*",".","s","h">>, <<"*",".","b","a","s","h">>, <<"*",".","z","s","h">>>>,
    PatternNotModelled, {"g","i"}),
  RegexRule("sh-netcat-listen", "high",
    <<<<"*",".","s","h">>, <<"*",".","b","a","s","h">>, <<"*",".","z","s","h">>>>,
    PatternNotModelled, {"g","i"}),
  RegexRule("sh-chmod-executable", "low",
    <<<<"*",".","s","h">>, <<"*",".","b","a","s","h">>, <<"*",".","z","s","h">>>>,
    PatternNotModelled, {"g","i"}),
  RegexRule("sh-crontab-modify", "high",
    <<<<"*",".","s","h">>, <<"*",".","b","a","s","h">>, <<"*",".","z","s","h">>>>,
    PatternNotModelled, {"g","i"}),
  RegexRule("sh-rc-file-modify", "high",
    <<<<"*",".","s","h">>, <<"*",".","b","a","s","h">>, <<"*",".","z","s","h">>>>,
    PatternNotModelled, {"g","i"}),
  RegexRule("sh-env-exfil", "medium",
    <<<<"*",".","s","h">>, <<"*",".","b","a","s","h">>, <<"*",".","z","s","h">>>>,
    PatternNotModelled, {"g","i"}),
  RegexRule("sh-ssh-key-access", "high",
    <<<<"*",".","s","h">>, <<"*",".","b","a","s","h">>, <<"*",".","z","s","h">>>>,
    PatternNotModelled, {"g","i"}),
  RegexRule("sh-base64-decode-exec", "high",
    <<<<"*",".","s","h">>, <<"*",".","b","a","s","h">>, <<"*",".","z","s","h">>>>,
    PatternNotModelled, {"g","i"})>>

repoHeuristicsRules == <<
  RegexRule("repo-minified-source", "high",
    <<<<"s","r","c","/","*",".","m","i","n",".","j","s">>, <<"l","i","b","/","*",".","m","i","n",".","j","s">>, <<"a","p","p","/","*",".","m","i","n",".","j","s">>>>,
    PatternNotModelled, {"g"}),
  RegexRule("repo-long-lines", "medium",
    <<<<"*",".","j","s">>, <<"*",".","t","s">>, <<"*",".","p","y">>>>,
    PatternNotModelled, {"g","m"}),
  RegexRule("repo-binary-blob", "medium",
    <<<<"*",".","e","x","e">>, <<"*",".","d","l","l">>, <<"*",".","s","o">>, <<"*",".","d","y","l","i","b">>, <<"*",".","b","i","n">>>>,
    PatternNotModelled, {"g"}),
  RegexRule("repo-similar-package-name", "low",
    <<<<"p","a","c","k","a","g","e",".","j","s","o","n">>>>,
    PatternNotModelled, {"g","i"}),
  RegexRule("repo-hidden-executable", "high",
    <<<<".","*",".","s","h">>, <<".","*",".","p","y">>, <<".","*",".","j","s">>, <<".","*",".","e","x","e">>, <<".","*",".","b","a","t">>, <<".","*",".","c","m","d">>, <<".","*",".","p","s","1">>>>,
    PatternNotModelled, {"g"}),
  RegexRule("repo-double-extension", "high",
    <<<<"*",".","t","x","t",".","e","x","e">>, <<"*",".","d","o","c",".","e","x","e">>, <<"*",".","p","d","f",".","e","x","e">>, <<"*",".","j","p","g",".","e","x","e">>, <<"*",".","p","n","g",".","j","s">>, <<"*",".","m","d",".","s","h">>>>,
    PatternNotModelled, {"g"}),
  RegexRule("repo-delayed-execution", "low",
    <<<<"*",".","j","s">>, <<"*",".","t","s">>, <<"*",".","p","y">>>>,
    PatternNotModelled, {"g","i"}),
  RegexRule("repo-hardcoded-key", "medium",
    <<<<"*",".","j","s">>, <<"*",".","t","s">>, <<"*",".","p","y">>, <<"*",".","j","s","o","n">>, <<"*",".","e","n","v","*">>>>,
    Re_repo_hardcoded_key, {"g","i"}),
  RegexRule("repo-hex-private-key", "high",
    <<<<"*",".","j","s">>, <<"*",".","t","s">>, <<"*",".","p","y">>, <<"*",".","j","s","o","n">>, <<"*",".","e","n","v","*">>>>,
    Re_repo_hex_private_key, {"g"}),
  RegexRule("repo-git-dependency", "medium",
    <<<<"p","a","c","k","a","g","e",".","j","s","o","n">>>>,
    PatternNotModelled, {"g","i","s"})>>

getAllRules ==
  vscodeRules \o javascriptRules \o pythonRules \o shellRules \o repoHeuristicsRules

(***************************************************************************)
(* Small catalogs, in the shape of the Rule type (types.ts), used besides  *)
(* the built-in one: every severity, every detection method the evaluator  *)
(* dispatches on here, a rule whose RegExp does not compile, a rule whose  *)
(* file pattern does not compile, and a rule without the g flag.           *)
(***************************************************************************)
P_js == <<"*", ".", "j", "s">>
P_md == <<"*", ".", "m", "d">>
P_bad == <<"l", "i", "b", "/", "*", "(">>

testRules == <<
  RegexRule("t-high", "high", <<P_js>>, Lit(<<"e", "v">>), {"g"}),
  RegexRule("t-medium", "medium", <<P_js, <<"M", "a", "k", "e", "f", "i", "l", "e">>>>,
            Chr({"x"}), FlagsUndefined),
  RegexRule("t-invalid", "high", <<P_js>>, InvalidRegex, {"g"}),
  RegexRule("t-low", "low", <<P_md>>, Chr({"a"}), {"g", "i"}),
  [id |-> "t-info", severity |-> "info", filePatterns |-> <<P_md>>,
   detect |-> [type |-> "file-exists"]],
  [id |-> "t-custom", severity |-> "high", filePatterns |-> <<P_md>>,
   detect |-> [type |-> "custom"]]>>

badPatternRules == <<
  RegexRule("t-low", "low", <<P_md>>, Chr({"a"}), {"g"}),
  RegexRule("t-bad-pattern", "medium", <<P_md, P_bad>>, Chr({"a"}), {"g"}),
  RegexRule("t-high", "high", <<P_js>>, Lit(<<"e", "v">>), {"g"})>>

noGlobalFlagRules == <<
  RegexRule("t-medium", "medium", <<P_js>>, Chr({"x"}), {"g"}),
  RegexRule("t-no-g", "high", <<P_js>>, Lit(<<"e", "v">>), {"i"})>>

(***************************************************************************)
(* Directory trees.  A node is a directory entry: its name, its kind       *)
(* (Dirent.isDirectory / isFile / neither), the content of a file and the  *)
(* entries of a directory in readdir order.  stat.size of a file is the    *)
(* length of its content.                                                  *)
(***************************************************************************)
File(name, content) == [name |-> name, kind |-> "file", content |-> content, children |-> <<>>]
Dir(name, children) == [name |-> name, kind |-> "dir", content |-> <<>>, children |-> children]
Other(name) == [name |-> name, kind |-> "other", content |-> <<>>, children |-> <<>>]

N_vscode == <<".", "v", "s", "c", "o", "d", "e">>
N_tasks_json == <<"t", "a", "s", "k", "s", ".", "j", "s", "o", "n">>
N_node_modules == <<"n", "o", "d", "e", "_", "m", "o", "d", "u", "l", "e", "s">>

\* {"tasks":[{"runOn":"folderOpen"}]}
ScenarioAContent ==
  <<"{", "\"", "t", "a", "s", "k", "s", "\"", ":", "[", "{", "\"", "r", "u", "n", "O", "n", "\"",
    ":", "\"", "f", "o", "l", "d", "e", "r", "O", "p", "e", "n", "\"", "}", "]", "}">>

ScenarioATree == <<Dir(N_vscode, <<File(N_tasks_json, ScenarioAContent)>>)>>

ScenarioCTree == <<
  File(<<"R", "E", "A", "D", "M", "E", ".", "t", "x", "t">>,
       <<"M", "y", " ", "P", "r", "o", "j", "e", "c", "t">>),
  File(<<"n", "o", "t", "e", "s", ".", "t", "x", "t">>,
       <<"S", "o", "m", "e", " ", "n", "o", "t", "e", "s">>)>>

MixedTree == <<
  File(<<"a", ".", "j", "s">>, <<"x">>),
  Dir(N_node_modules, <<File(<<"e", ".", "j", "s">>, <<"e", "v">>)>>),
  File(<<".", "h", ".", "j", "s">>, <<"e", "v">>),
  Dir(<<"s", "r", "c">>, <<
    File(<<"b", ".", "j", "s">>, <<"x", "\n", "e", "v">>),
    Other(<<"l", "n", "k">>),
    File(<<"b", "i", "g", ".", "j", "s">>, <<"e", "v", "e", "v", "e", "v">>)>>),
  File(<<"c", ".", "t", "x", "t">>, <<"e", "v">>),
  File(<<"n", ".", "j", "s">>, <<"n">>),
  File(<<"d", ".", "m", "d">>, <<"A">>)>>

SmallTree == <<
  File(<<"d", ".", "m", "d">>, <<"a">>),
  File(<<"a", ".", "j", "s">>, <<"e", "v">>),
  Dir(<<"s", "r", "c">>, <<
    File(<<"b", ".", "j", "s">>, <<"x", "e", "v">>),
    File(<<"r", ".", "m", "d">>, <<"a">>)>>)>>

(***************************************************************************)
(* Scanner options (scanner/index.ts).                                     *)
(***************************************************************************)
DEFAULT_EXCLUDE == <<
  N_node_modules,
  <<".", "g", "i", "t">>,
  <<"d", "i", "s", "t">>,
  <<"b", "u", "i", "l", "d">>,
  <<"o", "u", "t">>,
  <<".", "n", "e", "x", "t">>,
  <<"_", "_", "p", "y", "c", "a", "c", "h", "e", "_", "_">>,
  <<"v", "e", "n", "v">>,
  <<".", "v", "e", "n", "v">>,
  <<"t", "a", "r", "g", "e", "t">>>>

DEFAULT_MAX_FILE_SIZE == 1024 * 1024
DEFAULT_TIMEOUT == 30000

\* an excludePatterns option with a pattern that contains '/'
customExclude == <<<<"s", "r", "c", "/", "b">>, <<"c", ".", "t", "x", "t">>>>

\* The scans of the model: a tree, the rules of the Scanner, and the values
\* the options may take.
Worlds == <<
  [tree |-> ScenarioATree, rules |-> getAllRules, exclude |-> {DEFAULT_EXCLUDE},
   maxFileSize |-> {DEFAULT_MAX_FILE_SIZE}, timeout |-> {DEFAULT_TIMEOUT}],
  [tree |-> ScenarioCTree, rules |-> getAllRules, exclude |-> {DEFAULT_EXCLUDE},
   maxFileSize |-> {DEFAULT_MAX_FILE_SIZE}, timeout |-> {DEFAULT_TIMEOUT}],
  [tree |-> MixedTree, rules |-> testRules, exclude |-> {DEFAULT_EXCLUDE, customExclude},
   maxFileSize |-> {DEFAULT_MAX_FILE_SIZE, 4}, timeout |-> {DEFAULT_TIMEOUT}],
  [tree |-> SmallTree, rules |-> badPatternRules, exclude |-> {DEFAULT_EXCLUDE},
   maxFileSize |-> {DEFAULT_MAX_FILE_SIZE}, timeout |-> {DEFAULT_TIMEOUT}],
  [tree |-> SmallTree, rules |-> noGlobalFlagRules, exclude |-> {DEFAULT_EXCLUDE},
   maxFileSize |-> {DEFAULT_MAX_FILE_SIZE}, timeout |-> {DEFAULT_TIMEOUT}],
  \* dot names: .vscode with t.js, the dot-file .x.js and the dot-directory
  \* .d, the hidden file .evil.js, and a second .vscode below lib
  [tree |-> <<Dir(N_vscode, <<File(<<".", "x", ".", "j", "s">>, <<"e", "v">>),
                              File(<<"t", ".", "j", "s">>, <<"e", "v">>),
                              Dir(<<".", "d">>, <<File(<<"u", ".", "j", "s">>, <<"e", "v">>)>>)>>),
              File(<<".", "e", "v", "i", "l", ".", "j", "s">>, <<"e", "v">>),
              Dir(<<"l", "i", "b">>, <<Dir(N_vscode, <<File(<<"v", ".", "j", "s">>, <<"x">>)>>)>>)>>,
   rules |-> testRules, exclude |-> {DEFAULT_EXCLUDE},
   maxFileSize |-> {DEFAULT_MAX_FILE_SIZE}, timeout |-> {DEFAULT_TIMEOUT, 1}],
  \* a.js and src/b.js: findings of severity high and medium
  [tree |-> <<File(<<"a", ".", "j", "s">>, <<"e", "v">>),
              Dir(<<"s", "r", "c">>, <<File(<<"b", ".", "j", "s">>, <<"x">>)>>)>>,
   rules |-> testRules, exclude |-> {DEFAULT_EXCLUDE},
   maxFileSize |-> {DEFAULT_MAX_FILE_SIZE}, timeout |-> {DEFAULT_TIMEOUT}],
  \* d.md: one finding of severity low
  [tree |-> <<File(<<"d", ".", "m", "d">>, <<"a">>)>>,
   rules |-> testRules, exclude |-> {DEFAULT_EXCLUDE},
   maxFileSize |-> {DEFAULT_MAX_FILE_SIZE}, timeout |-> {DEFAULT_TIMEOUT}]>>

(***************************************************************************)
(* Scanner (scanner/index.ts).                                             *)
(*                                                                         *)
(* scan() is an async function: it runs until the next await (readdir,     *)
(* stat, readFile) and is resumed when that call returns or fails.  One    *)
(* action is one resumption, run to the next await or to the return of     *)
(* scan().  abort() and the passing of time interleave with these.         *)
(***************************************************************************)
VARIABLES
  world,            \* index in Worlds of the tree and rules of this Scanner
  excludePatterns,  \* this.options.excludePatterns
  maxFileSize,      \* this.options.maxFileSize
  timeout,          \* this.options.timeout
  findings,         \* this.findings
  scannedFiles,     \* this.scannedFiles
  startTime,        \* this.startTime
  aborted,          \* this.aborted
  pc,               \* where the scan() call is: idle, readdir, stat, read, done, hang
  stack,            \* the walkDirectory activations: directory, entries, next entry
  cur,              \* the entry whose readdir / stat / readFile is awaited, and
                    \* the applicableRules of scanFile once they are computed
  result,           \* the ScanResult the promise of the scan() call resolved with
  now,              \* Date.now()
  scans,            \* number of scan() calls made
  listed,           \* history: directories readdir was called on in this scan
  statted,          \* history: files stat was called on in this scan
  readFiles,        \* history: files readFile was called on in this scan
  readOk,           \* history: files readFile returned the content of
  failed,           \* history: the calls [op, path] that failed in this scan
  caught,           \* history: scan() caught an exception of the walk
  sigFindings,      \* history: this.findings when abort() was first called or
                    \* the timeout elapsed during this scan
  calls,            \* the matchFile calls made directly: arguments and result
  evals,            \* the applyRule calls made directly: arguments and what
                    \* the call returned
  peer,             \* the other scan() call of the host, suspended at its await
                    \* while this one runs: on a Scanner of its own, or on
                    \* this Scanner (same)
  ext               \* the extension: currentScanner, and the Scanner of each
                    \* runScan invocation

vars == <<world, excludePatterns, maxFileSize, timeout, findings, scannedFiles,
          startTime, aborted, pc, stack, cur, result, now, scans,
          listed, statted, readFiles, readOk, failed, caught, sigFindings, calls, evals,
          peer, ext>>

Tree == Worlds[world].tree
Rules == Worlds[world].rules

NoCur == [path |-> <<>>, node |-> Dir(<<>>, <<>>), rules |-> <<>>]
\* findings of a ScanResult is a reference to an array: array is which one,
\* the array that the n-th scan() call of the Scanner assigned to
\* this.findings
NoResult ==
  [verdict |-> "none", findings |-> <<>>, array |-> 0, scannedFiles |-> 0, scanDuration |-> 0]
\* history of the signals of a scan: whether abort() was called or the
\* timeout elapsed while it ran and, at the first of these, this.findings,
\* this.scannedFiles and the paths readdir or stat had been called on
\* (begun); stale is whether abort() had been called on the Scanner when
\* the scan started
NoSignal ==
  [signalled |-> FALSE, findings |-> <<>>, scannedFiles |-> 0, begun |-> {}, stale |-> FALSE]

\* the host makes no other scan() call: id is 0.  inst is the fields of a
\* Scanner, act the position, the return value and the histories of a
\* scan() call on it
NoPeer ==
  [id |-> 0, same |-> FALSE, overlap |-> FALSE,
   inst |-> [world |-> 0, excludePatterns |-> <<>>, maxFileSize |-> 0, timeout |-> 0,
             findings |-> <<>>, scannedFiles |-> 0, startTime |-> 0, aborted |-> FALSE,
             scans |-> 0],
   act |-> [pc |-> "idle", stack |-> <<>>, cur |-> NoCur, result |-> NoResult,
            listed |-> {}, statted |-> {}, readFiles |-> {}, readOk |-> {}, failed |-> {},
            caught |-> FALSE, sigFindings |-> NoSignal]]

\* shouldExclude without the test of the names that start with '.'
shouldExcludePatternsOnly(relativePath, name) ==
  LET some(segments) ==
        \E k \in 1..Len(excludePatterns) :
          IF includesChar(excludePatterns[k], "/")
          THEN includes(relativePath, excludePatterns[k])
          ELSE name = excludePatterns[k] \/ SeqContains(segments, excludePatterns[k])
  IN  some(split(relativePath, "/"))

\* shouldExclude without the excludePatterns test
shouldExcludeDotNamesOnly(relativePath, name) ==
  startsWith(name, <<".">>) /\ name # N_vscode

shouldExclude(relativePath, name) ==
  LET some(segments) ==
        \E k \in 1..Len(excludePatterns) :
          IF includesChar(excludePatterns[k], "/")
          THEN includes(relativePath, excludePatterns[k])
          ELSE name = excludePatterns[k] \/ SeqContains(segments, excludePatterns[k])
  IN  IF startsWith(name, <<".">>) /\ name # N_vscode THEN TRUE
      ELSE some(split(relativePath, "/"))

\* isTimedOut that never reports the timeout
isTimedOutNever == FALSE

isTimedOut == now - startTime > timeout

\* the size test with >= in place of >
tooLargeAtLimit(size) == size >= maxFileSize

\* if (stats.size > this.options.maxFileSize) return
tooLarge(size) == size > maxFileSize

\* determineVerdict with the two tests in the other order
determineVerdictMediumFirst(fs) ==
  LET hasHigh == \E k \in 1..Len(fs) : fs[k].severity = "high"
      hasMedium == \E k \in 1..Len(fs) : fs[k].severity = "medium"
  IN  IF hasMedium THEN "medium"
      ELSE IF hasHigh THEN "high"
      ELSE "low"

determineVerdict(fs) ==
  LET hasHigh == \E k \in 1..Len(fs) : fs[k].severity = "high"
      hasMedium == \E k \in 1..Len(fs) : fs[k].severity = "medium"
  IN  IF hasHigh THEN "high"
      ELSE IF hasMedium THEN "medium"
      ELSE "low"

\* every rule of the catalog taken as applicable, without matchFile
applicableRulesAll(relativePath) == [throw |-> FALSE, rules |-> Rules]

\* this.rules.filter((rule) => matchFile(relativePath, rule.filePatterns)):
\* the applicable rules in catalog order, or throw when matchFile throws
applicableRules(relativePath) ==
  LET m == [k \in 1..Len(Rules) |-> matchFile(relativePath, Rules[k].filePatterns)]
      kept == {k \in 1..Len(Rules) : m[k] # "false"}
      applies(rule) == \E k \in kept : Rules[k] = rule
  IN  IF \E k \in kept : m[k] = "throw"
      THEN [throw |-> TRUE, rules |-> <<>>]
      ELSE [throw |-> FALSE, rules |-> SelectSeq(Rules, applies)]

\* for (const rule of applicableRules) this.findings.push(...applyRule(...)):
\* the findings pushed, and whether a rule's evaluation never returns
applyRules(rs, relativePath, content) ==
  LET RECURSIVE loop(_, _)
      loop(k, pushed) ==
        IF k > Len(rs) THEN [findings |-> pushed, hang |-> FALSE]
        ELSE LET push(applied) ==
                   IF applied.hang THEN [findings |-> pushed, hang |-> TRUE]
                   ELSE loop(k + 1, pushed \o applied.findings)
             IN  push(applyRule(rs[k], relativePath, content))
  IN  loop(1, <<>>)

\* scanFile putting the findings of a file before those collected so far
scanFileContentPrepends(fs, count, rules, relativePath, content) ==
  LET counted(applied) ==
        [findings |-> applied.findings \o fs, scannedFiles |-> count + 1,
         hang |-> applied.hang]
  IN  counted(applyRules(rules, relativePath, content))

\* scanFile without this.scannedFiles++
scanFileContentUncounted(fs, count, rules, relativePath, content) ==
  LET counted(applied) ==
        [findings |-> fs \o applied.findings, scannedFiles |-> count, hang |-> applied.hang]
  IN  counted(applyRules(rules, relativePath, content))

\* scanFile counting a file only when a rule fired on it
scanFileContentCountsFindings(fs, count, rules, relativePath, content) ==
  LET counted(applied) ==
        [findings |-> fs \o applied.findings,
         scannedFiles |-> IF applied.findings = <<>> THEN count ELSE count + 1,
         hang |-> applied.hang]
  IN  counted(applyRules(rules, relativePath, content))

\* scanFile after readFile returned: this.scannedFiles++ and the loop over
\* the applicable rules
scanFileContent(fs, count, rules, relativePath, content) ==
  LET counted(applied) ==
        [findings |-> fs \o applied.findings, scannedFiles |-> count + 1,
         hang |-> applied.hang]
  IN  counted(applyRules(rules, relativePath, content))

\* scan() returning no findings when the walk was stopped
scanResultEmptyWhenStopped(fs, count) ==
  [verdict |-> determineVerdict(IF aborted \/ isTimedOut THEN <<>> ELSE fs),
   findings |-> IF aborted \/ isTimedOut THEN <<>> ELSE fs, array |-> scans,
   scannedFiles |-> count, scanDuration |-> now - startTime]

\* the return statement of scan()
scanResult(fs, count) ==
  [verdict |-> determineVerdict(fs), findings |-> fs, array |-> scans,
   scannedFiles |-> count, scanDuration |-> now - startTime]

\* walkDirectory from the top of its for loop, run to the next await:
\* "readdir" or "stat" of entry cur, or "return" of the outermost call
RECURSIVE walkDirectory(_)
walkDirectory(stk) ==
  IF stk = <<>> THEN [pc |-> "return", stack |-> <<>>, cur |-> NoCur]
  ELSE LET top == stk[Len(stk)]
           callers == SubSeq(stk, 1, Len(stk) - 1)
       IN  IF top.i > Len(top.entries) THEN walkDirectory(callers)
           ELSE IF aborted \/ isTimedOut THEN walkDirectory(callers)
           ELSE LET entry == top.entries[top.i]
                    relativePath == pathJoin(top.dir, entry.name)
                    next == Append(callers, [top EXCEPT !.i = top.i + 1])
                IN  IF shouldExclude(relativePath, entry.name) THEN walkDirectory(next)
                    ELSE IF entry.kind = "dir"
                      THEN [pc |-> "readdir", stack |-> next,
                            cur |-> [path |-> relativePath, node |-> entry, rules |-> <<>>]]
                    ELSE IF entry.kind = "file"
                      THEN [pc |-> "stat", stack |-> next,
                            cur |-> [path |-> relativePath, node |-> entry, rules |-> <<>>]]
                    ELSE walkDirectory(next)

\* the scan() call goes on from the loop of the innermost walkDirectory
Resume(stk, fs, count) ==
  LET await(w) ==
        /\ stack' = w.stack
        /\ cur' = w.cur
        /\ IF w.pc = "return"
           THEN pc' = "done" /\ result' = scanResult(fs, count)
           ELSE pc' = w.pc /\ UNCHANGED result
  IN  await(walkDirectory(stk))

\* an exception of the walk reaches the catch of scan()
Catch ==
  /\ stack' = <<>>
  /\ cur' = NoCur
  /\ caught' = TRUE
  /\ pc' = "done"
  /\ result' = scanResult(findings, scannedFiles)

\* the extension after activate(): currentScanner is undefined (0) and no
\* runScan invocation has created its Scanner; a Scanner is named by the
\* number of the invocation that created it
NoExt ==
  [currentScanner |-> 0,
   runs |-> [i \in 1..MaxRuns |-> [state |-> "none", aborted |-> FALSE, cancelled |-> FALSE]],
   deactivated |-> FALSE]

Init ==
  /\ world \in 1..Len(Worlds)
  /\ excludePatterns \in Worlds[world].exclude
  /\ maxFileSize \in Worlds[world].maxFileSize
  /\ timeout \in Worlds[world].timeout
  /\ findings = <<>>
  /\ scannedFiles = 0
  /\ startTime = 0
  /\ aborted = FALSE
  /\ pc = "idle"
  /\ stack = <<>>
  /\ cur = NoCur
  /\ result = NoResult
  /\ now = 0
  /\ scans = 0
  /\ listed = {}
  /\ statted = {}
  /\ readFiles = {}
  /\ readOk = {}
  /\ failed = {}
  /\ caught = FALSE
  /\ sigFindings = NoSignal
  /\ calls = <<>>
  /\ evals = <<>>
  /\ peer = NoPeer
  /\ ext = NoExt

\* what no method of the Scanner assigns
Options == <<world, excludePatterns, maxFileSize, timeout, calls, evals>>

\* the ScanResult the other scan() call on this Scanner returned, after
\* this.findings.push: its findings is this.findings when no scan() call
\* has assigned a new array since (findings: this.findings is a reference)
afterPush(other, fs) ==
  IF other.same /\ other.act.pc = "done" /\ other.act.result.array = scans
  THEN [other EXCEPT !.act.result.findings = fs]
  ELSE other

\* scan() without this.aborted = false
ScanKeepsAborted ==
  /\ pc \in {"idle", "done"}
  /\ scans + peer.inst.scans < MaxScans
  /\ scans' = scans + 1
  /\ startTime' = now
  /\ findings' = <<>>
  /\ scannedFiles' = 0
  /\ stack' = <<>>
  /\ statted' = {}
  /\ readFiles' = {}
  /\ readOk' = {}
  /\ failed' = {}
  /\ caught' = FALSE
  /\ sigFindings' = [NoSignal EXCEPT !.stale = aborted]
  /\ IF aborted \/ 0 > timeout
     THEN /\ pc' = "done"
          /\ cur' = NoCur
          /\ listed' = {}
          /\ result' = [verdict |-> determineVerdict(<<>>), findings |-> <<>>,
                        array |-> scans', scannedFiles |-> 0, scanDuration |-> 0]
     ELSE /\ pc' = "readdir"
          /\ cur' = [path |-> <<>>, node |-> Dir(<<>>, Tree), rules |-> <<>>]
          /\ listed' = {}
          /\ result' = NoResult
  /\ UNCHANGED <<Options, ext, peer, now, aborted>>

\* scan(): reset, then walkDirectory(rootPath) up to its readdir
Scan ==
  /\ pc \in {"idle", "done"}
  /\ scans + peer.inst.scans < MaxScans
  /\ scans' = scans + 1
  /\ startTime' = now
  /\ findings' = <<>>
  /\ scannedFiles' = 0
  /\ aborted' = FALSE
  /\ stack' = <<>>
  /\ statted' = {}
  /\ readFiles' = {}
  /\ readOk' = {}
  /\ failed' = {}
  /\ caught' = FALSE
  /\ sigFindings' = [NoSignal EXCEPT !.stale = aborted]
  /\ IF 0 > timeout
     THEN /\ pc' = "done"
          /\ cur' = NoCur
          /\ listed' = {}
          /\ result' = [verdict |-> determineVerdict(<<>>), findings |-> <<>>,
                        array |-> scans', scannedFiles |-> 0, scanDuration |-> 0]
     ELSE /\ pc' = "readdir"
          /\ cur' = [path |-> <<>>, node |-> Dir(<<>>, Tree), rules |-> <<>>]
          /\ listed' = {}
          /\ result' = NoResult
  /\ UNCHANGED <<Options, ext, peer, now>>

\* fs.promises.readdir returns the entries
ReaddirOk ==
  /\ pc = "readdir"
  /\ listed' = listed \cup {cur.path}
  /\ Resume(Append(stack, [dir |-> cur.path, entries |-> cur.node.children, i |-> 1]),
            findings, scannedFiles)
  /\ UNCHANGED <<Options, ext, peer, findings, scannedFiles, startTime, aborted, now, scans,
                 statted, readFiles, readOk, failed, caught, sigFindings>>

\* a failure of readdir that is not caught in walkDirectory
ReaddirFailFatal ==
  /\ pc = "readdir"
  /\ Cardinality(failed) < MaxFaults
  /\ listed' = listed \cup {cur.path}
  /\ failed' = failed \cup {[op |-> "readdir", path |-> cur.path]}
  /\ Catch
  /\ UNCHANGED <<Options, ext, peer, findings, scannedFiles, startTime, aborted, now, scans,
                 statted, readFiles, readOk, sigFindings>>

\* fs.promises.readdir fails: walkDirectory returns
ReaddirFail ==
  /\ pc = "readdir"
  /\ Cardinality(failed) < MaxFaults
  /\ listed' = listed \cup {cur.path}
  /\ failed' = failed \cup {[op |-> "readdir", path |-> cur.path]}
  /\ Resume(stack, findings, scannedFiles)
  /\ UNCHANGED <<Options, ext, peer, findings, scannedFiles, startTime, aborted, now, scans,
                 statted, readFiles, readOk, caught, sigFindings>>

\* fs.promises.stat returns: size check, rule filter, then readFile
StatOk ==
  /\ pc = "stat"
  /\ statted' = statted \cup {cur.path}
  /\ IF tooLarge(Len(cur.node.content))
     THEN Resume(stack, findings, scannedFiles) /\ UNCHANGED caught
     ELSE LET filtered(applicable) ==
                IF applicable.throw THEN Catch
                ELSE IF Len(applicable.rules) = 0
                  THEN Resume(stack, findings, scannedFiles) /\ UNCHANGED caught
                ELSE /\ pc' = "read"
                     /\ cur' = [cur EXCEPT !.rules = applicable.rules]
                     /\ UNCHANGED <<stack, result, caught>>
          IN  filtered(applicableRules(cur.path))
  /\ UNCHANGED <<Options, ext, peer, findings, scannedFiles, startTime, aborted, now, scans,
                 listed, readFiles, readOk, failed, sigFindings>>

\* fs.promises.stat fails: scanFile returns
StatFail ==
  /\ pc = "stat"
  /\ Cardinality(failed) < MaxFaults
  /\ statted' = statted \cup {cur.path}
  /\ failed' = failed \cup {[op |-> "stat", path |-> cur.path]}
  /\ Resume(stack, findings, scannedFiles)
  /\ UNCHANGED <<Options, ext, peer, findings, scannedFiles, startTime, aborted, now, scans,
                 listed, readFiles, readOk, caught, sigFindings>>

\* fs.promises.readFile returns the content: count the file, apply the rules
ReadFileOk ==
  /\ pc = "read"
  /\ readFiles' = readFiles \cup {cur.path}
  /\ readOk' = readOk \cup {cur.path}
  /\ LET evaluated(after) ==
           /\ findings' = after.findings
           /\ scannedFiles' = after.scannedFiles
           /\ peer' = afterPush(peer, after.findings)
           /\ IF after.hang
              THEN pc' = "hang" /\ UNCHANGED <<stack, cur, result>>
              ELSE Resume(stack, after.findings, after.scannedFiles)
     IN  evaluated(scanFileContent(findings, scannedFiles, cur.rules, cur.path, cur.node.content))
  /\ UNCHANGED <<Options, ext, startTime, aborted, now, scans,
                 listed, statted, failed, caught, sigFindings>>

\* fs.promises.readFile fails: scanFile returns
ReadFileFail ==
  /\ pc = "read"
  /\ Cardinality(failed) < MaxFaults
  /\ readFiles' = readFiles \cup {cur.path}
  /\ failed' = failed \cup {[op |-> "readFile", path |-> cur.path]}
  /\ Resume(stack, findings, scannedFiles)
  /\ UNCHANGED <<Options, ext, peer, findings, scannedFiles, startTime, aborted, now, scans,
                 listed, statted, readOk, caught, sigFindings>>

Running == pc \in {"readdir", "stat", "read"}

\* abort() with the aborted flag shared by every Scanner
AbortEveryScanner ==
  /\ pc # "hang"
  /\ aborted' = TRUE
  /\ peer' = [peer EXCEPT !.inst.aborted = TRUE]
  /\ sigFindings' = IF Running /\ ~sigFindings.signalled
                    THEN [signalled |-> TRUE, findings |-> findings,
                          scannedFiles |-> scannedFiles,
                          begun |-> listed \cup statted \cup {cur.path},
                          stale |-> sigFindings.stale]
                    ELSE sigFindings
  /\ UNCHANGED <<Options, ext, findings, scannedFiles, startTime, pc, stack, cur, result,
                 now, scans, listed, statted, readFiles, readOk, failed, caught>>

\* abort(), called by the host between two resumptions of scan()
Abort ==
  /\ pc # "hang"
  /\ aborted' = TRUE
  /\ sigFindings' = IF Running /\ ~sigFindings.signalled
                    THEN [signalled |-> TRUE, findings |-> findings,
                          scannedFiles |-> scannedFiles,
                          begun |-> listed \cup statted \cup {cur.path},
                          stale |-> sigFindings.stale]
                    ELSE sigFindings
  /\ UNCHANGED <<Options, ext, peer, findings, scannedFiles, startTime, pc, stack, cur, result,
                 now, scans, listed, statted, readFiles, readOk, failed, caught>>

\* time passes
Tick ==
  /\ Running
  /\ now < MaxTime
  /\ now' = now + 1
  /\ sigFindings' = IF ~sigFindings.signalled /\ now' - startTime > timeout
                    THEN [signalled |-> TRUE, findings |-> findings,
                          scannedFiles |-> scannedFiles,
                          begun |-> listed \cup statted \cup {cur.path},
                          stale |-> sigFindings.stale]
                    ELSE sigFindings
  /\ UNCHANGED <<Options, ext, peer, findings, scannedFiles, startTime, aborted, pc, stack, cur,
                 result, scans, listed, statted, readFiles, readOk, failed, caught>>

Next ==
  \/ Scan
  \/ ReaddirOk
  \/ ReaddirFail
  \/ StatOk
  \/ StatFail
  \/ ReadFileOk
  \/ ReadFileFail
  \/ Abort
  \/ Tick

Spec == Init /\ [][Next]_vars

(***************************************************************************)
(* matchFile on its own (matcher.ts): a call on a path and a list of       *)
(* patterns, then a second call on the same arguments with the case of a   *)
(* letter or the separators of the path written differently.               *)
(***************************************************************************)
MatchPaths == {
  <<"h", "i", "d", "d", "e", "n", ".", "s", "h">>,
  <<".", "h", "i", "d", "d", "e", "n", ".", "s", "h">>,
  <<"a", ".", "j", "s">>,
  <<"s", "r", "c", "/", "a", ".", "j", "s">>,
  <<".", "v", "s", "c", "o", "d", "e", "/", "t", "a", "s", "k", "s", ".", "j", "s", "o", "n">>,
  <<"M", "a", "k", "e", "f", "i", "l", "e">>,
  <<"p", "r", "o", "d", ".", "e", "n", "v", ".", "l", "o", "c", "a", "l">>,
  <<"l", "i", "b", "/", "x">>}

MatchPatterns == {
  <<".", "*", ".", "s", "h">>,
  P_js,
  <<"a", ".", "j", "s">>,
  <<"s", "r", "c", "/">>,
  <<".", "v", "s", "c", "o", "d", "e", "/", ".", "*">>,
  <<"s", "r", "c", "/", "*", ".", "j", "s">>,
  P_bad,
  <<"M", "a", "k", "e", "f", "i", "l", "e">>,
  <<"*", ".", "e", "n", "v", "*">>,
  N_tasks_json}

\* the pattern lists: one pattern, or two
MatchPatternLists ==
  {<<p>> : p \in MatchPatterns} \cup {<<p, q>> : p \in MatchPatterns, q \in MatchPatterns}

\* the same string with the case of some letters changed
CaseVariants(s) ==
  {toUpperCase(s), toLowerCase(s)} \cup
  {[s EXCEPT ![k] = IF LowerChar(s[k]) = s[k] THEN UpperChar(s[k]) ELSE LowerChar(s[k])] :
     k \in 1..Len(s)}

\* the same path with '/' written as '\'
Backslashed(s) == [k \in 1..Len(s) |-> IF s[k] = "/" THEN "\\" ELSE s[k]]

matchFileCall(filePath, patterns) ==
  [filePath |-> filePath, patterns |-> patterns, result |-> matchFile(filePath, patterns)]

MatchInit ==
  /\ world = 1
  /\ excludePatterns = DEFAULT_EXCLUDE
  /\ maxFileSize = DEFAULT_MAX_FILE_SIZE
  /\ timeout = DEFAULT_TIMEOUT
  /\ findings = <<>>
  /\ scannedFiles = 0
  /\ startTime = 0
  /\ aborted = FALSE
  /\ pc = "idle"
  /\ stack = <<>>
  /\ cur = NoCur
  /\ result = NoResult
  /\ now = 0
  /\ scans = 0
  /\ listed = {}
  /\ statted = {}
  /\ readFiles = {}
  /\ readOk = {}
  /\ failed = {}
  /\ caught = FALSE
  /\ sigFindings = NoSignal
  /\ calls = <<>>
  /\ evals = <<>>
  /\ peer = NoPeer
  /\ ext = NoExt

ScannerVars == <<world, excludePatterns, maxFileSize, timeout, findings, scannedFiles,
                 startTime, aborted, pc, stack, cur, result, now, scans,
                 listed, statted, readFiles, readOk, failed, caught, sigFindings>>

\* matchFile(filePath, patterns)
MatchFile ==
  /\ calls = <<>>
  /\ \E filePath \in MatchPaths, patterns \in MatchPatternLists :
       calls' = <<matchFileCall(filePath, patterns)>>
  /\ UNCHANGED <<ScannerVars, ext, evals, peer>>

\* matchFile on the path of the first call written differently
MatchFileOtherPath ==
  /\ Len(calls) = 1
  /\ \E filePath \in CaseVariants(calls[1].filePath) \cup {Backslashed(calls[1].filePath)} :
       calls' = Append(calls, matchFileCall(filePath, calls[1].patterns))
  /\ UNCHANGED <<ScannerVars, ext, evals, peer>>

\* matchFile on the patterns of the first call, one of them written differently
MatchFileOtherPattern ==
  /\ Len(calls) = 1
  /\ \E k \in 1..Len(calls[1].patterns) :
       \E pattern \in CaseVariants(calls[1].patterns[k]) :
         calls' = Append(calls, matchFileCall(calls[1].filePath,
                                              [calls[1].patterns EXCEPT ![k] = pattern]))
  /\ UNCHANGED <<ScannerVars, ext, evals, peer>>

MatchNext ==
  \/ MatchFile
  \/ MatchFileOtherPath
  \/ MatchFileOtherPattern

MatchSpec == MatchInit /\ [][MatchNext]_vars

(***************************************************************************)
(* applyRule called directly, as the tests of matcher.test.ts do, on rules *)
(* and contents drawn from the sets below.                                 *)
(***************************************************************************)
EvalPaths == {<<"a", ".", "j", "s", "o", "n">>, <<"s", "r", "c", "/", "x", ".", "j", "s">>}

\* a text of four lines, and a text of MatchTruncation + 1 characters
T_lines == <<"x", "A", "B", "\n", "a", "b", " ", "a", "b", "\n", "\n", "A", "b">>
T_long == [k \in 1..(MatchTruncation + 1) |-> "A"]

\* the other contents: texts that are not JSON, and JSON documents, one of
\* them on several lines and one with a string of MatchTruncation - 1
\* characters
EvalContents ==
  {T_lines, T_long,
   <<>>,
   <<"a", "b">>,
   <<"n", "o", "t", " ", "j", "s", "o", "n", " ", "{", "{", "{">>,
   <<"{", "\"", "a", "\"", ":", "\"", "x", "y", "z", "\"", "}">>,
   <<"{", "\"", "a", "\"", ":", "{", "\"", "b", "\"", ":", "\"", "x", "\"", "}", ",", "\"", "n", "\"", ":", "n", "u", "l", "l", "}">>,
   <<"{", "\n", " ", "\"", "a", "\"", ":", " ", "[", "1", "]", ",", "\n", " ", "\"", "t", "a", "s", "k", "s", "\"", ":", " ", "[", "\n", " ", " ", "{", "\"", "c", "m", "d", "\"", ":", "\"", "c", "u", "r", "l", " ", "x", "\"", "}", "\n", " ", "]", "\n", "}">>,
   <<"{", "\"", "a", "\"", ":", "[", "{", "\"", "c", "m", "d", "\"", ":", "\"", "c", "u", "r", "l", "\"", "}", "]", "}">>,
   <<"{", "\"", "a", "\"", ":", "[", "\"", "c", "u", "r", "l", " ", "x", "\"", ",", "\"", "y", "\"", "]", "}">>,
   <<"{", "\"", "a", "\"", ":", "1", "}">>,
   <<"{", "\"", "a", "\"", ":", "\"", "1", "\"", "}">>,
   <<"{", "\"", "a", "\"", ":", "\"">> \o [k \in 1..(MatchTruncation - 1) |-> "A"] \o <<"\"", "}">>}

\* detect.pattern of the regex rules: /ab/, /A+/, /.+/, /x*/, and one that
\* does not compile
R_ab == Lit(<<"a", "b">>)
R_As == Plus(Chr({"A"}))

EvalPatterns == {R_ab, R_As, Plus(AnyChar), Star(Chr({"x"})), InvalidRegex}

\* detect.flags: every combination of g, m, i, s, no flags field, and flags
\* that new RegExp rejects
EvalFlags == (SUBSET {"g", "m", "i", "s"}) \cup {FlagsUndefined, {"g", "x"}}

\* detect.path of the json-path rules
EvalJsonPaths ==
  {<<"a">>,
   <<"a", ".", "b">>,
   <<"t", "a", "s", "k", "s", "[", "0", "]", ".", "c", "m", "d">>,
   <<"a", ".", "*">>,
   <<"a", ".", "*", ".", "b">>,
   <<"*">>,
   <<"n", ".", "*", ".", "x">>,
   <<"a", ".", "l", "e", "n", "g", "t", "h">>,
   <<"c", "o", "n", "s", "t", "r", "u", "c", "t", "o", "r">>,
   <<"n", ".", "x", ".", "y">>,
   <<"t", "a", "s", "k", "s", "[", "5", "]">>,
   <<"z", "z">>}

\* detect.condition of the json-path rules: exists, equals (value: unknown),
\* contains (value: string), matches (pattern), and an operator that is none
\* of these
EvalConditions ==
  {[op |-> "exists"],
   [op |-> "equals", value |-> JsStr(<<"x">>)],
   [op |-> "equals", value |-> JsNum(1)],
   [op |-> "equals", value |-> JsStr(<<"1">>)],
   [op |-> "equals", value |-> JsValue("null", FALSE, 0, <<>>, <<>>)],
   [op |-> "equals", value |-> JsArr(<<JsNum(1)>>)],
   [op |-> "equals", value |-> JsObj(<<[key |-> <<"b">>, val |-> JsStr(<<"x">>)]>>)],
   [op |-> "contains", value |-> JsStr(<<"c", "u", "r", "l">>)],
   [op |-> "contains", value |-> JsStr(<<"y">>)],
   [op |-> "matches", pattern |-> Lit(<<"c", "u", "r">>)],
   [op |-> "matches", pattern |-> Lit(<<"u", "n", "d", "e", "f", "i", "n", "e", "d">>)],
   [op |-> "matches", pattern |-> InvalidRegex],
   [op |-> "unknown"]}

JsonPathRule(id, severity, filePatterns, path, condition) ==
  [id |-> id, severity |-> severity, filePatterns |-> filePatterns,
   detect |-> [type |-> "json-path", path |-> path, condition |-> condition]]

EvalRules ==
  {RegexRule("eval-regex", "high", <<<<"*">>>>, pattern, flags) :
     pattern \in EvalPatterns, flags \in EvalFlags}
  \cup {JsonPathRule("eval-json", "medium", <<<<"*">>>>, path, condition) :
          path \in EvalJsonPaths, condition \in EvalConditions}

\* applyRule(rule, filePath, content)
ApplyRule ==
  /\ evals = <<>>
  /\ \E rule \in EvalRules, filePath \in EvalPaths, content \in EvalContents :
       evals' = <<[rule |-> rule, filePath |-> filePath, content |-> content,
                   returned |-> applyRule(rule, filePath, content)]>>
  /\ UNCHANGED <<ScannerVars, ext, calls, peer>>

RuleSpec == MatchInit /\ [][ApplyRule]_vars
(***************************************************************************)
(* Two scan() calls of one host.  JavaScript runs one call at a time: a    *)
(* call runs until its next await, and then the host may resume the other  *)
(* call in place of this one.  The call that is not running is in peer;    *)
(* the variables of the Scanner are those of the call that runs.           *)
(***************************************************************************)
\* the worlds of the two Scanners: the two smallest trees
PairWorlds == {Len(Worlds) - 1, Len(Worlds)}

\* the event loop resumes the other call.  The fields of the Scanner change
\* hands only when the other call is on a Scanner of its own
Switch ==
  /\ peer.id # 0
  /\ pc # "hang"
  /\ peer' = [id |-> 3 - peer.id, same |-> peer.same,
              overlap |-> peer.overlap \/ (Running /\ peer.act.pc \in {"readdir", "stat", "read"}),
              inst |-> IF peer.same THEN peer.inst
                       ELSE [world |-> world, excludePatterns |-> excludePatterns,
                             maxFileSize |-> maxFileSize, timeout |-> timeout,
                             findings |-> findings, scannedFiles |-> scannedFiles,
                             startTime |-> startTime, aborted |-> aborted, scans |-> scans],
              act |-> [pc |-> pc, stack |-> stack, cur |-> cur, result |-> result,
                       listed |-> listed, statted |-> statted, readFiles |-> readFiles,
                       readOk |-> readOk, failed |-> failed, caught |-> caught,
                       sigFindings |-> sigFindings]]
  /\ pc' = peer.act.pc
  /\ stack' = peer.act.stack
  /\ cur' = peer.act.cur
  /\ result' = peer.act.result
  /\ listed' = peer.act.listed
  /\ statted' = peer.act.statted
  /\ readFiles' = peer.act.readFiles
  /\ readOk' = peer.act.readOk
  /\ failed' = peer.act.failed
  /\ caught' = peer.act.caught
  /\ sigFindings' = peer.act.sigFindings
  /\ IF peer.same
     THEN UNCHANGED <<world, excludePatterns, maxFileSize, timeout, findings, scannedFiles,
                      startTime, aborted, scans>>
     ELSE /\ world' = peer.inst.world
          /\ excludePatterns' = peer.inst.excludePatterns
          /\ maxFileSize' = peer.inst.maxFileSize
          /\ timeout' = peer.inst.timeout
          /\ findings' = peer.inst.findings
          /\ scannedFiles' = peer.inst.scannedFiles
          /\ startTime' = peer.inst.startTime
          /\ aborted' = peer.inst.aborted
          /\ scans' = peer.inst.scans
  /\ UNCHANGED <<now, calls, evals, ext>>

\* time does not pass while the two calls run: the timeout is that of Spec
PairNext ==
  \/ Scan
  \/ ReaddirOk
  \/ ReaddirFail
  \/ StatOk
  \/ StatFail
  \/ ReadFileOk
  \/ ReadFileFail
  \/ Abort
  \/ Switch

\* two Scanners, constructed over two trees or over the same tree
PairInit ==
  /\ ext = NoExt
  /\ world \in PairWorlds
  /\ excludePatterns \in Worlds[world].exclude
  /\ maxFileSize \in Worlds[world].maxFileSize
  /\ timeout \in Worlds[world].timeout
  /\ findings = <<>>
  /\ scannedFiles = 0
  /\ startTime = 0
  /\ aborted = FALSE
  /\ pc = "idle"
  /\ stack = <<>>
  /\ cur = NoCur
  /\ result = NoResult
  /\ now = 0
  /\ scans = 0
  /\ listed = {}
  /\ statted = {}
  /\ readFiles = {}
  /\ readOk = {}
  /\ failed = {}
  /\ caught = FALSE
  /\ sigFindings = NoSignal
  /\ calls = <<>>
  /\ evals = <<>>
  /\ \E w \in PairWorlds :
       \E e \in Worlds[w].exclude, m \in Worlds[w].maxFileSize, t \in Worlds[w].timeout :
         peer = [id |-> 2, same |-> FALSE, overlap |-> FALSE,
                 inst |-> [NoPeer.inst EXCEPT !.world = w, !.excludePatterns = e,
                                              !.maxFileSize = m, !.timeout = t],
                 act |-> NoPeer.act]

PairSpec == PairInit /\ [][PairNext]_vars

\* one Scanner whose scan() is called while a scan() call on it is in progress
OverlapInit ==
  /\ ext = NoExt
  /\ world \in PairWorlds
  /\ excludePatterns \in Worlds[world].exclude
  /\ maxFileSize \in Worlds[world].maxFileSize
  /\ timeout \in Worlds[world].timeout
  /\ findings = <<>>
  /\ scannedFiles = 0
  /\ startTime = 0
  /\ aborted = FALSE
  /\ pc = "idle"
  /\ stack = <<>>
  /\ cur = NoCur
  /\ result = NoResult
  /\ now = 0
  /\ scans = 0
  /\ listed = {}
  /\ statted = {}
  /\ readFiles = {}
  /\ readOk = {}
  /\ failed = {}
  /\ caught = FALSE
  /\ sigFindings = NoSignal
  /\ calls = <<>>
  /\ evals = <<>>
  /\ peer = [id |-> 2, same |-> TRUE, overlap |-> FALSE, inst |-> NoPeer.inst, act |-> NoPeer.act]

OverlapSpec == OverlapInit /\ [][PairNext]_vars

(***************************************************************************)
(* The extension (runScan and deactivate).  Every runScan invocation       *)
(* creates a Scanner and stores it in the module variable currentScanner;  *)
(* the invocations overlap at the await of scan().                         *)
(***************************************************************************)
\* runScan, the callback of withProgress up to the await:
\* currentScanner = new Scanner(...), the cancellation handler is
\* registered, and currentScanner.scan() is called
RunScan(i) ==
  /\ ~ext.deactivated
  /\ ext.runs[i].state = "none"
  /\ ext' = [ext EXCEPT !.currentScanner = i, !.runs[i].state = "scanning"]
  /\ UNCHANGED <<ScannerVars, calls, evals, peer>>

\* runScan after the await: scan() of the Scanner of invocation i returned
\* or threw, and currentScanner = undefined in both branches
ScanReturns(i) ==
  /\ ~ext.deactivated
  /\ ext.runs[i].state = "scanning"
  /\ ext' = [ext EXCEPT !.currentScanner = 0, !.runs[i].state = "done"]
  /\ UNCHANGED <<ScannerVars, calls, evals, peer>>

\* the user cancels the progress notification of invocation i: its handler
\* runs currentScanner?.abort()
Cancel(i) ==
  /\ ~ext.deactivated
  /\ ext.runs[i].state = "scanning"
  /\ ~ext.runs[i].cancelled
  /\ ext' = IF ext.currentScanner = 0
            THEN [ext EXCEPT !.runs[i].cancelled = TRUE]
            ELSE [ext EXCEPT !.runs[i].cancelled = TRUE,
                             !.runs[ext.currentScanner].aborted = TRUE]
  /\ UNCHANGED <<ScannerVars, calls, evals, peer>>

\* deactivate(): currentScanner?.abort()
Deactivate ==
  /\ ~ext.deactivated
  /\ ext' = IF ext.currentScanner = 0
            THEN [ext EXCEPT !.deactivated = TRUE]
            ELSE [ext EXCEPT !.deactivated = TRUE,
                             !.runs[ext.currentScanner].aborted = TRUE]
  /\ UNCHANGED <<ScannerVars, calls, evals, peer>>

ExtNext ==
  \/ \E i \in 1..MaxRuns : RunScan(i)
  \/ \E i \in 1..MaxRuns : ScanReturns(i)
  \/ \E i \in 1..MaxRuns : Cancel(i)
  \/ Deactivate

ExtSpec == MatchInit /\ [][ExtNext]_vars
(***************************************************************************)
(* Properties.  The notions they are stated with are defined here from the *)
(* tree and the options alone, independently of the Scanner's methods.     *)
(***************************************************************************)
\* every entry of the tree, with its path relative to the root
RECURSIVE Entries(_, _)
Entries(dir, nodes) ==
  UNION {{[path |-> pathJoin(dir, nodes[k].name), node |-> nodes[k]]} \cup
         Entries(pathJoin(dir, nodes[k].name), nodes[k].children) : k \in 1..Len(nodes)}

\* the entries of the tree of each world, as pairs of a world and an entry
WorldEntries ==
  {we \in UNION {{<<w, e>> : e \in Entries(<<>>, Worlds[w].tree)} : w \in 1..Len(Worlds)} : TRUE}

\* the file paths of the tree of each world, as pairs of a world and a path
WorldFilePaths == {<<we[1], we[2].path>> : we \in {x \in WorldEntries : x[2].node.kind = "file"}}

\* the entries and the file paths of each world, as pairs of a world and a set
EntriesOfWorld ==
  {x \in {<<w, {we[2] : we \in {y \in WorldEntries : y[1] = w}}>> : w \in 1..Len(Worlds)} : TRUE}

FilePathsOfWorld ==
  {x \in {<<w, {wp[2] : wp \in {y \in WorldFilePaths : y[1] = w}}>> : w \in 1..Len(Worlds)} : TRUE}

TreeEntries == (CHOOSE x \in EntriesOfWorld : x[1] = world)[2]

FilePaths == (CHOOSE x \in FilePathsOfWorld : x[1] = world)[2]

ContentOf(p) == (CHOOSE e \in TreeEntries : e.path = p).node.content

SizeOf(p) == Len(ContentOf(p))

\* the pairs of exclude patterns of a world and a path of a tree (the root
\* included) where the path is, or lies below, an entry a pattern names
PrunedPaths ==
  LET named(patterns, p, segments) ==
        \E k \in 1..Len(patterns) :
          IF includesChar(patterns[k], "/")
          THEN includes(p, patterns[k])
          ELSE SeqContains(segments, patterns[k])
  IN  {ep \in (UNION {Worlds[w].exclude : w \in 1..Len(Worlds)})
                \X ({<<>>} \cup {we[2].path : we \in WorldEntries}) :
         named(ep[1], ep[2], split(ep[2], "/"))}

\* p is, or lies below, an entry an exclude pattern names
Pruned(p) == <<excludePatterns, p>> \in PrunedPaths

\* p is, or lies below, an entry with a dot name other than .vscode
Hidden(p) ==
  LET dotted(segments) ==
        \E k \in 1..Len(segments) :
          startsWith(segments[k], <<".">>) /\ segments[k] # N_vscode
  IN  dotted(split(p, "/"))

\* the results of matching the file patterns of the rules of world w
\* against the path
MatchResults(w, p) ==
  {matchFile(p, Worlds[w].rules[k].filePatterns) : k \in 1..Len(Worlds[w].rules)}

WorldRuleMatches == {wp \in WorldFilePaths : "true" \in MatchResults(wp[1], wp[2])}

WorldMatchThrows == {wp \in WorldFilePaths : "throw" \in MatchResults(wp[1], wp[2])}

\* at least one rule of the catalog applies to the path
RuleMatches(p) == <<world, p>> \in WorldRuleMatches

\* matching the file patterns of the catalog against the path throws
MatchThrows(p) == <<world, p>> \in WorldMatchThrows

\* a call on the path, or on a directory above it, failed in this scan
FailedAt(p) ==
  \E f \in failed :
    \/ f.path = p
    \/ f.op = "readdir" /\ (f.path = <<>> \/ startsWith(p, f.path \o <<"/">>))

\* the files a scan that runs to its end reads and counts
Eligible ==
  {p \in FilePaths : ~Pruned(p) /\ ~Hidden(p) /\ SizeOf(p) <= maxFileSize /\ RuleMatches(p)}

\* abort() or the timeout stopped the walk of this scan
Stopped == aborted \/ sigFindings.signalled

HasSeverity(fs, severity) == \E k \in 1..Len(fs) : fs[k].severity = severity

VerdictOf(fs) ==
  IF HasSeverity(fs, "high") THEN "high"
  ELSE IF HasSeverity(fs, "medium") THEN "medium"
  ELSE "low"

IsPrefix(a, b) == Len(a) <= Len(b) /\ SubSeq(b, 1, Len(a)) = a

WellFormed(r) ==
  /\ r.verdict \in {"high", "medium", "low"}
  /\ r.verdict = VerdictOf(r.findings)
  /\ r.scannedFiles \in Nat
  /\ r.scanDuration \in Nat
  /\ \A k \in 1..Len(r.findings) : r.findings[k].file \in FilePaths

\* C1: the verdict of every ScanResult scan() returns is 'high' iff some
\* finding of the result has severity high, otherwise 'medium' iff some
\* finding has severity medium, otherwise 'low', however the scan ended.
C1_VerdictFollowsSeverities ==
  pc = "done" =>
    /\ result.verdict \in {"high", "medium", "low"}
    /\ result.verdict = "high" <=> HasSeverity(result.findings, "high")
    /\ result.verdict = "medium" <=>
         (~HasSeverity(result.findings, "high") /\ HasSeverity(result.findings, "medium"))
    /\ result.verdict = "low" <=>
         (~HasSeverity(result.findings, "high") /\ ~HasSeverity(result.findings, "medium"))

\* a result with findings of severity high, medium and low
C1_Witness ==
  /\ pc = "done"
  /\ result.verdict = "high"
  /\ HasSeverity(result.findings, "medium")
  /\ HasSeverity(result.findings, "low")

\* C2: a scan() call on a finite tree always resolves with a ScanResult: it
\* is never at a step that does not return (stated as the safety part: the
\* call is idle, awaiting a file-system call, or resolved).
C2_ScanAlwaysResolves == pc \in {"idle", "readdir", "stat", "read", "done"}

\* C3: once abort() was called or the timeout elapsed during a scan, the
\* findings collected before that signal stay a prefix of this.findings, and
\* the result scan() returns is well formed, starts with these findings in
\* the same order and has its verdict computed over its findings.
C3_StoppingKeepsFindings ==
  sigFindings.signalled =>
    /\ IsPrefix(sigFindings.findings, findings)
    /\ pc = "done" =>
         /\ IsPrefix(sigFindings.findings, result.findings)
         /\ WellFormed(result)

\* a scan stopped after its first findings and before the end of the tree
C3_Witness ==
  /\ pc = "done"
  /\ sigFindings.signalled
  /\ Len(sigFindings.findings) >= 1
  /\ \E p \in Eligible : p \notin statted

\* C4: no error while matching a rule's file patterns, evaluating a rule,
\* stat-ing or reading one file ends the traversal: in a scan that was not
\* stopped, every other file that is not excluded is visited, is read when
\* rules apply to it, and has its findings in the result.
C4_ErrorsDoNotEndTraversal ==
  (pc = "done" /\ ~Stopped) =>
    \A p \in FilePaths :
      (~Pruned(p) /\ ~Hidden(p) /\ ~FailedAt(p) /\ ~MatchThrows(p)) =>
        /\ p \in statted
        /\ p \in Eligible =>
             /\ p \in readOk
             /\ \A k \in 1..Len(Rules) :
                  (matchFile(p, Rules[k].filePatterns) = "true"
                     /\ Rules[k].detect.type = "regex"
                     /\ Rules[k].detect.pattern.t # "invalid") =>
                    \A j \in 1..Len(applyRule(Rules[k], p, ContentOf(p)).findings) :
                      SeqContains(result.findings,
                                  applyRule(Rules[k], p, ContentOf(p)).findings[j])

C6_SizeLimit ==
  LET within(small) ==
        /\ readFiles \cup readOk \subseteq small
        /\ pc = "read" => cur.path \in small
        /\ \A k \in 1..Len(findings) : findings[k].file \in small
        /\ scannedFiles <= Cardinality(small)
        /\ \A p \in statted :
             (p \in small /\ RuleMatches(p) /\ ~MatchThrows(p)
                /\ [op |-> "stat", path |-> p] \notin failed) =>
               (p \in readFiles \/ (pc = "read" /\ cur.path = p))
  IN  within({p \in FilePaths : SizeOf(p) <= maxFileSize})

\* a finished scan that read a file of size maxFileSize and skipped a larger
\* file that rules apply to
C6_Witness ==
  /\ pc = "done"
  /\ \E p \in readOk : SizeOf(p) = maxFileSize
  /\ \E p \in statted : SizeOf(p) > maxFileSize /\ RuleMatches(p)

\* C7: scannedFiles is the number of files of this scan with an applicable
\* rule whose content was read: excluded, oversized and unmatched files and
\* files whose stat or read failed are not counted; a tree whose files match
\* no rule's patterns gives scannedFiles = 0, no finding and verdict 'low'.
C7_ScannedFilesCount ==
  LET counts(readable) ==
        /\ scannedFiles = Cardinality(readOk)
        /\ readOk \subseteq readable
        /\ pc = "done" =>
             /\ result.scannedFiles = Cardinality(readOk)
             /\ (~Stopped /\ ~caught) => result.scannedFiles = Cardinality(readable)
             /\ (\A p \in FilePaths : ~RuleMatches(p)) =>
                  /\ result.scannedFiles = 0
                  /\ result.findings = <<>>
                  /\ result.verdict = "low"
  IN  counts({p \in Eligible : ~FailedAt(p)})

\* a finished scan that counted some files and left out an oversized file,
\* an excluded file, a file no rule applies to, and a file whose stat or read
\* failed
C7_Witness ==
  /\ pc = "done"
  /\ ~Stopped
  /\ result.scannedFiles >= 1
  /\ \E p \in FilePaths : SizeOf(p) > maxFileSize /\ RuleMatches(p) /\ ~Pruned(p) /\ ~Hidden(p)
  /\ \E p \in FilePaths : Pruned(p) /\ RuleMatches(p)
  /\ \E p \in statted : ~RuleMatches(p)
  /\ \E f \in failed : f.op \in {"stat", "readFile"} /\ RuleMatches(f.path)

\* C8: the scan, with the built-in catalog, of a tree that holds only
\* .vscode/tasks.json with content {"tasks":[{"runOn":"folderOpen"}]} gives
\* verdict 'high' and exactly one finding, of rule vscode-task-auto-run.
C8_ScenarioAOneFinding ==
  (pc = "done" /\ ~Stopped /\ failed = {} /\ Tree = ScenarioATree /\ world = 1) =>
    /\ result.verdict = "high"
    /\ Len(result.findings) = 1
    /\ result.findings[1].ruleId = "vscode-task-auto-run"

\* C9: the result of matchFile does not change when the case of letters of
\* the path or of a pattern is changed, nor when '/' in the path is written
\* as '\'.
C9_CaseAndSeparatorInsensitive ==
  Len(calls) = 2 => calls[2].result = calls[1].result

\* the literal reading of a wildcard pattern: '*' is any run of characters,
\* every other character is itself, case ignored, over the whole path
RECURSIVE GlobMatch(_, _)
GlobMatch(pattern, s) ==
  IF pattern = <<>> THEN s = <<>>
  ELSE IF Head(pattern) = "*"
    THEN \E k \in 0..Len(s) : GlobMatch(Tail(pattern), sliceFrom(s, k))
  ELSE /\ s # <<>>
       /\ LowerChar(Head(s)) = LowerChar(Head(pattern))
       /\ GlobMatch(Tail(pattern), Tail(s))

GeneralWildcard(pattern) ==
  /\ includesChar(pattern, "*")
  /\ ~startsWith(pattern, <<"*", ".">>)
  /\ ~endsWith(pattern, <<"/">>)

\* C10: for a general wildcard pattern matchFile is the literal match of the
\* pattern over the whole normalized path, '*' being any run of characters:
\* '.' matches only '.', so .*.sh matches .hidden.sh and not hidden.sh.
C10_WildcardIsLiteral ==
  \A k \in 1..Len(calls) :
    (Len(calls[k].patterns) = 1 /\ GeneralWildcard(calls[k].patterns[1])) =>
      calls[k].result =
        (IF GlobMatch(calls[k].patterns[1], toLowerCase(replaceBackslash(calls[k].filePath)))
         THEN "true" ELSE "false")


\* the five checks of matchFile on one pattern, each on its own
ExactCheck(normalizedPath, pattern) == normalizedPath = toLowerCase(pattern)

SuffixCheck(normalizedPath, pattern) == endsWith(normalizedPath, toLowerCase(pattern))

ExtensionCheck(normalizedPath, pattern) ==
  startsWith(pattern, <<"*", ".">>) /\ endsWith(normalizedPath, sliceFrom(pattern, 1))

DirectoryCheck(normalizedPath, pattern) ==
  endsWith(pattern, <<"/">>) /\ startsWith(normalizedPath, toLowerCase(pattern))

WildcardCheck(normalizedPath, pattern) ==
  /\ includesChar(pattern, "*")
  /\ regexTestAnchored(wildcardRegex(pattern), normalizedPath, {"i"})

\* C11: for one pattern, matchFile is the disjunction of the five checks
\* (exact, suffix, extension glob, directory prefix, general wildcard), in
\* whatever order they are made: *.env* matches prod.env.local because the
\* general-wildcard check holds.
C11_DisjunctionOfChecks ==
  \A k \in 1..Len(calls) :
    (Len(calls[k].patterns) = 1 /\ wildcardCompiles(calls[k].patterns[1])) =>
      LET any(normalizedPath, pattern) ==
            \/ ExactCheck(normalizedPath, pattern)
            \/ SuffixCheck(normalizedPath, pattern)
            \/ ExtensionCheck(normalizedPath, pattern)
            \/ DirectoryCheck(normalizedPath, pattern)
            \/ WildcardCheck(normalizedPath, pattern)
      IN  (calls[k].result = "true") <=>
            any(toLowerCase(replaceBackslash(calls[k].filePath)), calls[k].patterns[1])
(***************************************************************************)
(* The rule evaluators (RuleSpec).                                         *)
(***************************************************************************)
RegexCalls == {k \in 1..Len(evals) : evals[k].rule.detect.type = "regex"}
JsonPathCalls == {k \in 1..Len(evals) : evals[k].rule.detect.type = "json-path"}

\* the rule's flags, 'gm' when it has none
FlagsOf(rule) ==
  IF rule.detect.flags = FlagsUndefined THEN DefaultFlags ELSE rule.detect.flags

\* new RegExp(pattern, flags) cannot compile the rule
Uncompilable(rule) ==
  \/ rule.detect.pattern = InvalidRegex
  \/ \E flag \in FlagsOf(rule) : flag \notin RegExpFlags

\* C12: applyRule on a regex rule whose pattern or flags cannot be compiled
\* does not throw and returns an empty list of findings, for every file path
\* and content.
C12_UncompilableRuleReturnsNothing ==
  \A k \in RegexCalls :
    Uncompilable(evals[k].rule) =>
      /\ ~evals[k].returned.throws
      /\ ~evals[k].returned.hang
      /\ evals[k].returned.findings = <<>>

\* a rule whose pattern matches the content, but whose flags do not compile
C12_Witness ==
  \E k \in RegexCalls :
    /\ evals[k].rule.detect.pattern = R_ab
    /\ evals[k].rule.detect.flags = {"g", "x"}
    /\ evals[k].content = T_lines
    /\ ~evals[k].returned.throws
    /\ evals[k].returned.findings = <<>>

\* the findings of a global search: one per match in the text, whatever
\* flags the rule has besides
GlobalSearch(rule, filePath, content) ==
  execLoop(rule, filePath, content, FlagsOf(rule) \cup {"g"}, 0)

\* C13: for every combination of the flags g, m, i, s of a regex rule,
\* flags without g included, evaluating the rule on a finite content
\* terminates and returns exactly one finding per match of a global search
\* of the text.
C13_EveryFlagCombinationSearchesGlobally ==
  \A k \in RegexCalls :
    (~Uncompilable(evals[k].rule) /\ FlagsOf(evals[k].rule) \subseteq {"g", "m", "i", "s"}) =>
      /\ ~evals[k].returned.hang
      /\ evals[k].returned.findings =
           GlobalSearch(evals[k].rule, evals[k].filePath, evals[k].content)

\* the first MatchTruncation characters of a text
CutTo200(text) ==
  IF Len(text) > MatchTruncation THEN SubSeq(text, 1, MatchTruncation) ELSE text

\* the text of the first match of a regex rule in the content
FirstMatchedText(rule, content) ==
  LET text(m) == SubSeq(content, m.index + 1, m.end)
  IN  text(regexExec(rule.detect.pattern, content, 1, FlagsOf(rule)))

HasMatch(rule, content) ==
  regexExec(rule.detect.pattern, content, 1, FlagsOf(rule)) # NoMatch

\* the value at the path of a json-path rule in a content that parses
ValueAt(rule, content) == getJsonPath(JSONparse(content).val, rule.detect.path)

\* the content parses, the condition holds for the value at the path, and
\* the value has a JSON serialization
Reportable(rule, content) ==
  /\ JSONparse(content).ok
  /\ checkCondition(ValueAt(rule, content), rule.detect.condition).result
  /\ JSONstringify(ValueAt(rule, content)).defined

\* C14: every finding that applyRule returns with a match field has a match
\* of at most 200 characters; a longer matched text (regex rule) or JSON
\* serialization of the value (json-path rule) is cut to its first 200
\* characters and the finding is still emitted.
C14_MatchCutTo200 ==
  \A k \in 1..Len(evals) :
    /\ \A j \in 1..Len(evals[k].returned.findings) :
         "match" \in evals[k].returned.findings[j].has =>
           Len(evals[k].returned.findings[j].match) <= MatchTruncation
    /\ (/\ k \in RegexCalls
        /\ ~Uncompilable(evals[k].rule)
        /\ "g" \in FlagsOf(evals[k].rule)
        /\ HasMatch(evals[k].rule, evals[k].content)) =>
         /\ evals[k].returned.findings # <<>>
         /\ evals[k].returned.findings[1].match =
              CutTo200(FirstMatchedText(evals[k].rule, evals[k].content))
    /\ (k \in JsonPathCalls /\ Reportable(evals[k].rule, evals[k].content)) =>
         /\ Len(evals[k].returned.findings) = 1
         /\ evals[k].returned.findings[1].match =
              CutTo200(JSONstringify(ValueAt(evals[k].rule, evals[k].content)).text)

\* a regex rule that matches 201 characters, reported with the first 200
C14_Witness ==
  \E k \in RegexCalls :
    /\ evals[k].rule.detect.pattern = R_As
    /\ evals[k].content = T_long
    /\ Len(FirstMatchedText(evals[k].rule, evals[k].content)) = MatchTruncation + 1
    /\ Len(evals[k].returned.findings) = 1
    /\ Len(evals[k].returned.findings[1].match) = MatchTruncation

\* the start offsets (0-based) of the matches of a global search from
\* lastIndex on
RECURSIVE matchOffsets(_, _, _, _)
matchOffsets(pattern, content, flags, lastIndex) ==
  LET next(m) ==
        IF m = NoMatch THEN <<>>
        ELSE <<m.index>>
             \o matchOffsets(pattern, content, flags,
                             IF m.end = m.index THEN m.end + 1 ELSE m.end)
  IN  next(regexExec(pattern, content, lastIndex + 1, flags))

\* the positions (1-based) of the line breaks before an offset
BreaksBefore(content, offset) == {p \in 1..offset : content[p] = "\n"}

LineOf(content, offset) == 1 + Cardinality(BreaksBefore(content, offset))

\* the offset just after the last line break before an offset, 0 when there
\* is none
LineStart(content, offset) ==
  IF BreaksBefore(content, offset) = {} THEN 0
  ELSE CHOOSE p \in BreaksBefore(content, offset) :
         \A q \in BreaksBefore(content, offset) : q <= p

ColumnOf(content, offset) == 1 + (offset - LineStart(content, offset))

\* C15: for every regex finding, line is 1 + the number of '\n' characters
\* before the start offset of the match, and column is 1 + the start offset
\* minus the offset just after the preceding '\n' (minus 0 when there is
\* none): a match at offset 0 has line 1 and column 1.
C15_LineAndColumn ==
  \A k \in RegexCalls :
    (~Uncompilable(evals[k].rule) /\ "g" \in FlagsOf(evals[k].rule)) =>
      LET located(offsets) ==
            /\ Len(evals[k].returned.findings) = Len(offsets)
            /\ \A j \in 1..Len(offsets) :
                 /\ evals[k].returned.findings[j].line = LineOf(evals[k].content, offsets[j])
                 /\ evals[k].returned.findings[j].column =
                      ColumnOf(evals[k].content, offsets[j])
                 /\ offsets[j] = 0 =>
                      /\ evals[k].returned.findings[j].line = 1
                      /\ evals[k].returned.findings[j].column = 1
      IN  located(matchOffsets(evals[k].rule.detect.pattern, evals[k].content,
                               FlagsOf(evals[k].rule), 0))

\* /ab/gi on a text of four lines: the third match is on line 2, column 4,
\* and the match after the empty line is on line 4, column 1
C15_Witness ==
  \E k \in RegexCalls :
    /\ evals[k].rule.detect.pattern = R_ab
    /\ evals[k].rule.detect.flags = {"g", "i"}
    /\ evals[k].content = T_lines
    /\ Len(evals[k].returned.findings) = 4
    /\ evals[k].returned.findings[3].line = 2
    /\ evals[k].returned.findings[3].column = 4
    /\ evals[k].returned.findings[4].line = 4
    /\ evals[k].returned.findings[4].column = 1


\* the member of an object that has the key, as a sequence of 0 or 1 values
OwnValues(current, key) ==
  IF current.k = "object"
  THEN [j \in 1..Cardinality({i \in 1..Len(current.a) : current.a[i].key = key}) |->
          current.a[CHOOSE i \in 1..Len(current.a) : current.a[i].key = key].val]
  ELSE IF current.k = "array" /\ IsIndex(key) /\ parseInt(key) < Len(current.a)
  THEN <<current.a[parseInt(key) + 1]>>
  ELSE <<>>

\* the value of the parsed document at parts[k..], JsUndefined when it is
\* absent: a key is looked up in an object (an index in an array) of the
\* document and nowhere else
RECURSIVE TreeValueFrom(_, _, _)
TreeValueFrom(current, parts, k) ==
  IF k > Len(parts) THEN current
  ELSE IF current.k \notin {"object", "array"} THEN JsUndefined
  ELSE LET indexed(am) ==
             LET element(own) ==
                   IF own # <<>> /\ own[1].k = "array" /\ parseInt(am.index) < Len(own[1].a)
                   THEN TreeValueFrom(own[1].a[parseInt(am.index) + 1], parts, k + 1)
                   ELSE JsUndefined
             IN  element(OwnValues(current, am.key))
           plain(own) ==
             IF own = <<>> THEN JsUndefined ELSE TreeValueFrom(own[1], parts, k + 1)
       IN  IF arrayMatch(parts[k]).matched THEN indexed(arrayMatch(parts[k]))
           ELSE IF parts[k] = <<"*">>
           THEN (IF current.k = "array" THEN current ELSE JsArr(ObjectValues(current)))
           ELSE plain(OwnValues(current, parts[k]))

TreeValue(content, path) == TreeValueFrom(JSONparse(content).val, split(path, "."), 1)

\* the content parses, the path leads to a value of the document, and the
\* condition can be evaluated and holds for that value
ConditionHolds(rule, content) ==
  /\ JSONparse(content).ok
  /\ TreeValue(content, rule.detect.path) # JsUndefined
  /\ ~checkCondition(TreeValue(content, rule.detect.path), rule.detect.condition).throws
  /\ checkCondition(TreeValue(content, rule.detect.path), rule.detect.condition).result

\* C16: applyRule on a json-path rule returns exactly one finding when the
\* content parses as JSON and the condition holds for the value found at the
\* path; in every other case (content that does not parse, a path that is
\* absent or passes through null or a value that cannot be traversed, a
\* condition that is false, a matches condition whose pattern does not
\* compile) it returns no finding and does not throw.
C16_OneFindingIffConditionHolds ==
  \A k \in JsonPathCalls :
    /\ ~evals[k].returned.throws
    /\ Len(evals[k].returned.findings) =
         (IF ConditionHolds(evals[k].rule, evals[k].content) THEN 1 ELSE 0)

\* applyRule was called with a json-path rule of this operator on a content
\* that parses, and the path leads to a value of the document
ConditionCalls(op) ==
  {k \in JsonPathCalls :
     /\ evals[k].rule.detect.condition.op = op
     /\ JSONparse(evals[k].content).ok
     /\ TreeValue(evals[k].content, evals[k].rule.detect.path) # JsUndefined
     /\ ValueAt(evals[k].rule, evals[k].content) =
          TreeValue(evals[k].content, evals[k].rule.detect.path)}

\* two values of the same type and content; the members of an object are in
\* the order of its own properties
SameContent(value, expected) == value = expected

\* C17: the equals(expected) condition is true iff the retrieved value
\* equals expected in type and content, for every kind of JSON value:
\* scalars without coercion (1 does not equal "1"), and arrays and objects
\* with the same content.
C17_EqualsByTypeAndContent ==
  \A k \in ConditionCalls("equals") :
    (Len(evals[k].returned.findings) = 1) <=>
      SameContent(ValueAt(evals[k].rule, evals[k].content),
                  evals[k].rule.detect.condition.value)

\* what the claim says contains(needle) evaluates to
ContainsNeedle(value, needle) ==
  IF value.k = "string" /\ includes(value.s, needle) THEN TRUE
  ELSE IF /\ value.k = "array"
          /\ \E j \in 1..Len(value.a) :
               value.a[j].k = "string" /\ includes(value.a[j].s, needle)
  THEN TRUE
  ELSE includes(JSONstringify(value).text, needle)

\* C18: the contains(needle) condition is true if the value is a string
\* that contains needle, true if the value is an array with at least one
\* string element that contains needle, and in every other case (an array
\* none of whose string elements contains needle included) it is whether
\* the JSON serialization of the value contains needle.
C18_ContainsFallsBackToSerialization ==
  \A k \in ConditionCalls("contains") :
    (Len(evals[k].returned.findings) = 1) <=>
      ContainsNeedle(ValueAt(evals[k].rule, evals[k].content),
                     evals[k].rule.detect.condition.value.s)


(***************************************************************************)
(* Two scan() calls (PairSpec, OverlapSpec).                               *)
(***************************************************************************)
\* the paths of the files of a tree in the order of a walk: the entries of a
\* directory in readdir order, a directory before what follows it
RECURSIVE FilesInOrder(_, _)
FilesInOrder(dir, nodes) ==
  Flatten([k \in 1..Len(nodes) |->
            IF nodes[k].kind = "file" THEN <<pathJoin(dir, nodes[k].name)>>
            ELSE IF nodes[k].kind = "dir"
            THEN FilesInOrder(pathJoin(dir, nodes[k].name), nodes[k].children)
            ELSE <<>>])

\* the files of the tree of each world in the order of a walk, as pairs of
\* a world and a sequence of paths
WorldFilesInOrder ==
  {wo \in {<<w, FilesInOrder(<<>>, Worlds[w].tree)>> : w \in 1..Len(Worlds)} : TRUE}

\* the findings of the rules of world w on one file: those of each rule
\* whose file patterns match the path, in catalog order (none when matching
\* the patterns throws)
FileFindings(w, entry) ==
  LET m == [k \in 1..Len(Worlds[w].rules) |->
              matchFile(entry.path, Worlds[w].rules[k].filePatterns)]
      kept == {k \in 1..Len(Worlds[w].rules) : m[k] # "false"}
      applies(rule) == \E k \in kept : Worlds[w].rules[k] = rule
  IN  IF \E k \in kept : m[k] = "throw" THEN <<>>
      ELSE applyRules(SelectSeq(Worlds[w].rules, applies), entry.path,
                      entry.node.content).findings

\* the findings of each file of each world, as triples of a world, a path
\* and a sequence of findings
WorldFileFindings ==
  {wf \in {<<we[1], we[2].path, FileFindings(we[1], we[2])>> :
             we \in {x \in WorldEntries : x[2].node.kind = "file"}} :
     TRUE}

\* the findings of a scan of this Scanner's tree, run alone, that reads the
\* files in read: those of each file, file after file in the order of the walk
AloneFindings(read) ==
  LET order == (CHOOSE wo \in WorldFilesInOrder : wo[1] = world)[2]
      of(p) == (CHOOSE wf \in WorldFileFindings : wf[1] = world /\ wf[2] = p)[3]
      RECURSIVE from(_)
      from(k) ==
        IF k > Len(order) THEN <<>>
        ELSE IF order[k] \in read THEN of(order[k]) \o from(k + 1)
        ELSE from(k + 1)
  IN  from(1)

\* C19: two Scanner instances share no mutable state: for every
\* interleaving of the suspension points (readdir, stat, readFile) of two
\* scans on two instances, over different trees or the same tree, and for
\* every abort() on one of them, each scan returns the findings,
\* scannedFiles and verdict it returns when run alone: those of the files
\* it read itself, which are all the files to scan unless abort() was
\* called on this instance or one of its own calls failed.
C19_ScansDoNotInterfere ==
  (peer.id # 0 /\ ~peer.same /\ pc = "done") =>
    LET returns(alone) ==
          /\ result.findings = alone
          /\ result.scannedFiles = Cardinality(readOk)
          /\ result.verdict = VerdictOf(result.findings)
    IN  /\ returns(AloneFindings(readOk))
        /\ (~sigFindings.signalled /\ failed = {} /\ ~caught) => readOk = Eligible

\* two scans of the same tree that overlapped: abort() stopped the other
\* one before it read a file, and this one returned the findings of all
\* the files
C19_Witness ==
  /\ peer.id # 0 /\ ~peer.same
  /\ peer.overlap
  /\ world = peer.inst.world
  /\ peer.act.pc = "done"
  /\ peer.act.sigFindings.signalled
  /\ peer.act.readOk = {}
  /\ peer.act.result.findings = <<>>
  /\ pc = "done"
  /\ ~sigFindings.signalled
  /\ failed = {}
  /\ Cardinality(readOk) = 2
  /\ readOk = Eligible
  /\ Len(result.findings) = 2
  /\ result.verdict = "high"

\* whether the scan() call a has returned, and the ScanResult it returned
ActDone(a) == (IF peer.id = a THEN peer.act.pc ELSE pc) = "done"
ActResult(a) == IF peer.id = a THEN peer.act.result ELSE result

\* C20: a ScanResult is read-only once scan() has returned it: no later
\* operation on the same Scanner (abort(), another scan() call, or a scan()
\* call that was already in progress on that instance) changes the
\* findings, scannedFiles or verdict of the returned result.
C20_ReturnedResultIsReadOnly ==
  [][\A a \in {1, 2} :
       (ActDone(a) /\ ActDone(a)') =>
         /\ ActResult(a)'.findings = ActResult(a).findings
         /\ ActResult(a)'.scannedFiles = ActResult(a).scannedFiles
         /\ ActResult(a)'.verdict = ActResult(a).verdict]_vars

(***************************************************************************)
(* The walk of the Scanner (Spec).                                         *)
(***************************************************************************)
\* the files below a directory whose readdir failed in this scan
BelowFailedDir ==
  {p \in FilePaths :
     \E f \in failed :
       f.op = "readdir" /\ (f.path = <<>> \/ startsWith(p, f.path \o <<"/">>))}

\* C21: a failure to list a directory is never fatal: the failing directory
\* contributes no findings and no scanned files, every sibling entry and the
\* rest of the tree are still processed, and when the root path itself
\* cannot be listed the result has findings = [], scannedFiles = 0 and
\* verdict 'low'.
C21_ReaddirFailureNotFatal ==
  (\E f \in failed : f.op = "readdir") =>
    /\ readOk \cap BelowFailedDir = {}
    /\ \A k \in 1..Len(findings) : findings[k].file \notin BelowFailedDir
    /\ (pc = "done" /\ ~Stopped) =>
         /\ \A p \in Eligible : ~FailedAt(p) => p \in readOk
         /\ result.findings = AloneFindings(readOk)
         /\ result.scannedFiles = Cardinality(readOk)
    /\ (pc = "done" /\ [op |-> "readdir", path |-> <<>>] \in failed) =>
         /\ result.findings = <<>>
         /\ result.scannedFiles = 0
         /\ result.verdict = "low"

\* readdir of src failed: a.js before it and d.md after it were read, and
\* no file of src was
C21_Witness ==
  /\ pc = "done"
  /\ ~Stopped
  /\ Tree = MixedTree
  /\ [op |-> "readdir", path |-> <<"s", "r", "c">>] \in failed
  /\ <<"a", ".", "j", "s">> \in readOk
  /\ <<"d", ".", "m", "d">> \in readOk
  /\ statted \cap BelowFailedDir = {}
  /\ BelowFailedDir # {}
  /\ Len(result.findings) >= 2

\* the directory entries named .vscode that the walk comes to: the
\* directory that holds them was listed
VscodeDirsReached ==
  {e \in TreeEntries :
     /\ e.node.kind = "dir"
     /\ e.node.name = N_vscode
     /\ \E d \in listed :
          /\ [op |-> "readdir", path |-> d] \notin failed
          /\ e.path = pathJoin(d, N_vscode)}

FilesAfterSignal ==
  {findings[k].file : k \in (Len(sigFindings.findings) + 1)..Len(findings)}

\* C23: once abort() has been called or the timeout has elapsed during a
\* scan, no further directory is listed and no further file is started: at
\* most the one file whose stat or read had already begun completes, so
\* scannedFiles grows by at most 1 and findings by at most the findings of
\* that file after the signal.
C23_StopsAtNextCheck ==
  sigFindings.signalled =>
    /\ listed \cup statted \subseteq sigFindings.begun
    /\ scannedFiles <= sigFindings.scannedFiles + 1
    /\ IsPrefix(sigFindings.findings, findings)
    /\ Cardinality(FilesAfterSignal) <= 1
    /\ FilesAfterSignal \subseteq sigFindings.begun
    /\ scannedFiles = sigFindings.scannedFiles => FilesAfterSignal = {}

\* a scan stopped while a file was being read: the file was counted and
\* its findings appended, and the files after it were not started
C23_Witness ==
  /\ pc = "done"
  /\ sigFindings.signalled
  /\ scannedFiles = sigFindings.scannedFiles + 1
  /\ Cardinality(FilesAfterSignal) = 1
  /\ \E p \in Eligible : p \notin statted /\ ~FailedAt(p)

\* stat returned the size of the file, the size is at most maxFileSize, and
\* the file patterns of at least one rule match its path
Readable(p) ==
  /\ p \in statted
  /\ [op |-> "stat", path |-> p] \notin failed
  /\ SizeOf(p) <= maxFileSize
  /\ RuleMatches(p)

\* C24: per file the steps run in the order stat, rule filtering, read,
\* count, evaluate: the content of a file is read only after its size was
\* found to be at most maxFileSize and at least one rule's filePatterns
\* matched its relative path; a file to which no rule applies is never
\* read, and a rule whose patterns do not match the path is never evaluated
\* on that file.
C24_ReadOnlyAfterSizeAndRuleFilter ==
  /\ \A p \in readFiles : Readable(p)
  /\ pc = "read" =>
       /\ Readable(cur.path)
       /\ cur.path \notin readOk
       /\ \A k \in 1..Len(findings) : findings[k].file # cur.path
  /\ \A k \in 1..Len(findings) :
       /\ findings[k].file \in readOk
       /\ \E j \in 1..Len(Rules) :
            /\ Rules[j].id = findings[k].ruleId
            /\ matchFile(findings[k].file, Rules[j].filePatterns) = "true"

\* a scan that read a file, and that stat-ed and did not read a file that
\* is too large and a file that no rule applies to
C24_Witness ==
  /\ pc = "done"
  /\ readOk # {}
  /\ \E p \in statted \ readFiles : SizeOf(p) > maxFileSize /\ RuleMatches(p)
  /\ \E p \in statted \ readFiles : SizeOf(p) <= maxFileSize /\ ~RuleMatches(p) /\ ~FailedAt(p)

\* the place of a file in the walk and of a rule in the catalog
FileIndex(p) ==
  LET first(order) == CHOOSE k \in 1..Len(order) : order[k] = p
  IN  first(FilesInOrder(<<>>, Tree))
RuleIndex(id) == CHOOSE j \in 1..Len(Rules) : Rules[j].id = id

\* finding a comes before finding b in the order of the traversal: an
\* earlier file, or the same file and an earlier rule, or the same file and
\* rule and a smaller match offset (an earlier line, or the same line and a
\* smaller column)
Precedes(a, b) ==
  \/ FileIndex(a.file) < FileIndex(b.file)
  \/ /\ a.file = b.file
     /\ \/ RuleIndex(a.ruleId) < RuleIndex(b.ruleId)
        \/ /\ a.ruleId = b.ruleId
           /\ "column" \in a.has
           /\ "column" \in b.has
           /\ a.line < b.line \/ (a.line = b.line /\ a.column < b.column)

InTraversalOrder(fs) == \A k \in 1..(Len(fs) - 1) : Precedes(fs[k], fs[k + 1])

\* C25: result.findings is ordered by traversal: all findings of a file
\* visited earlier precede all findings of a file visited later; within one
\* file the findings are grouped by rule in catalog order; and within one
\* regex rule they are in increasing match offset.  Findings are only
\* appended, never reordered or removed during a scan.
C25_FindingsInTraversalOrder ==
  [][/\ InTraversalOrder(findings')
     /\ scans' = scans => IsPrefix(findings, findings')
     /\ pc' = "done" =>
          /\ InTraversalOrder(result'.findings)
          /\ scans' = scans => result'.findings = findings']_vars

\* a result with two findings of one rule in one file, findings of two
\* rules in one file, and findings of two files
C25_Witness ==
  /\ pc = "done"
  /\ InTraversalOrder(result.findings)
  /\ \E k \in 1..(Len(result.findings) - 1) :
       /\ result.findings[k].file = result.findings[k + 1].file
       /\ result.findings[k].ruleId = result.findings[k + 1].ruleId
  /\ \E k \in 1..(Len(result.findings) - 1) :
       /\ result.findings[k].file = result.findings[k + 1].file
       /\ result.findings[k].ruleId # result.findings[k + 1].ruleId
  /\ \E k \in 1..(Len(result.findings) - 1) :
       result.findings[k].file # result.findings[k + 1].file

(***************************************************************************)
(* The rule evaluators, continued (RuleSpec).                              *)
(***************************************************************************)
\* the calls of applyRule with a regex rule that compiles and has the g flag
GlobalCalls ==
  {k \in RegexCalls : ~Uncompilable(evals[k].rule) /\ "g" \in FlagsOf(evals[k].rule)}

\* the pattern matches the empty string at every position of the content
\* and nothing longer anywhere
OnlyEmptyMatches(pattern, content, flags) ==
  \A from \in 1..(Len(content) + 1) :
    regexExec(pattern, content, from, flags) = [index |-> from - 1, end |-> from - 1]

\* C26: with the global flag set, a regex rule whose pattern can match the
\* empty string does not loop forever: after each empty match the search
\* cursor advances by one position, so evaluation on content of length n
\* terminates with at most n + 1 findings, never reports two findings at
\* the same start offset, and reports the n + 1 empty matches of a pattern
\* that matches nothing else.
C26_EmptyMatchesAdvance ==
  \A k \in GlobalCalls :
    LET found(fs) ==
          /\ ~evals[k].returned.hang
          /\ ~evals[k].returned.throws
          /\ Len(fs) <= Len(evals[k].content) + 1
          /\ \A j \in 1..(Len(fs) - 1) :
               \/ fs[j].line < fs[j + 1].line
               \/ fs[j].line = fs[j + 1].line /\ fs[j].column < fs[j + 1].column
          /\ OnlyEmptyMatches(evals[k].rule.detect.pattern, evals[k].content,
                              FlagsOf(evals[k].rule)) =>
               /\ Len(fs) = Len(evals[k].content) + 1
               /\ \A j \in 1..Len(fs) : fs[j].match = <<>>
    IN  found(evals[k].returned.findings)

\* /x*/g on 'ab': the three empty matches at the offsets 0, 1 and 2
C26_Witness ==
  \E k \in GlobalCalls :
    /\ evals[k].rule.detect.pattern = Star(Chr({"x"}))
    /\ evals[k].content = <<"a", "b">>
    /\ Len(evals[k].returned.findings) = 3
    /\ \A j \in 1..3 :
         /\ evals[k].returned.findings[j].match = <<>>
         /\ evals[k].returned.findings[j].line = 1
         /\ evals[k].returned.findings[j].column = j

(***************************************************************************)
(* The state of a scan (Spec).                                             *)
(***************************************************************************)
\* C27: scan() resets the per-scan state at its start (findings emptied,
\* scannedFiles = 0, abort flag cleared, start time set): an abort() issued
\* before scan() is called, or during a previous scan on the same instance,
\* has no effect on the next scan(), which walks the whole tree; only an
\* abort() issued after scan() has started stops that scan.
C27_ScanResetsState ==
  /\ (Running /\ ~sigFindings.signalled) => ~aborted /\ ~isTimedOut
  /\ pc # "idle" =>
       /\ startTime <= now
       /\ scannedFiles = Cardinality(readOk)
       /\ \A k \in 1..Len(findings) : findings[k].file \in readOk
  /\ (pc = "done" /\ ~sigFindings.signalled /\ failed = {} /\ ~caught) =>
       /\ readOk = Eligible
       /\ result.scannedFiles = Cardinality(Eligible)
       /\ sigFindings.stale => result.findings = AloneFindings(Eligible)

\* abort() had been called on the Scanner when this scan started, and the
\* scan walked the whole tree
C27_Witness ==
  /\ pc = "done"
  /\ sigFindings.stale
  /\ ~sigFindings.signalled
  /\ ~aborted
  /\ failed = {}
  /\ readOk = Eligible
  /\ Cardinality(readOk) >= 2
  /\ Len(result.findings) >= 2

\* the distinct file paths of a sequence of findings
FilesOf(fs) == {fs[k].file : k \in 1..Len(fs)}

\* C29: in every state reached during a single scan() on a Scanner,
\* scannedFiles never decreases and findings only grows by appending;
\* scannedFiles is incremented for a file before any of its findings is
\* appended, so every finding's file is a file already counted: the number
\* of distinct file paths in findings is at most scannedFiles, and non-empty
\* findings implies scannedFiles >= 1.
C29_CountedBeforeFindings ==
  [][/\ scans' = scans =>
          /\ scannedFiles' >= scannedFiles
          /\ IsPrefix(findings, findings')
     /\ Cardinality(FilesOf(findings')) <= scannedFiles'
     /\ findings' # <<>> => scannedFiles' >= 1]_vars

\* findings of two files, and a third file that was counted and has none
C29_Witness ==
  /\ pc = "done"
  /\ Cardinality(FilesOf(findings)) >= 2
  /\ scannedFiles > Cardinality(FilesOf(findings))
  /\ result.scannedFiles = scannedFiles

\* the position of the first '*' segment of a path, 0 when it has none
FirstStar(parts) ==
  IF \E j \in 1..Len(parts) : parts[j] = <<"*">>
  THEN CHOOSE j \in 1..Len(parts) :
         parts[j] = <<"*">> /\ \A h \in 1..(j - 1) : parts[h] # <<"*">>
  ELSE 0

\* applyRule was called with a json-path rule whose path has a '*' segment,
\* on a content that parses
StarCalls ==
  {k \in JsonPathCalls :
     /\ FirstStar(split(evals[k].rule.detect.path, ".")) > 0
     /\ JSONparse(evals[k].content).ok}

\* what '*' makes of the value it is applied to
StarOf(val) ==
  IF val.k = "array" THEN val
  ELSE IF val.k = "object" THEN JsArr(ObjectValues(val))
  ELSE JsUndefined

\* the value the segments before the first '*' lead to
BeforeStar(content, path) ==
  LET upTo(parts) == getJsonPathFrom(JSONparse(content).val,
                                     SubSeq(parts, 1, FirstStar(parts) - 1), 1)
  IN  upTo(split(path, "."))

\* the path cut after its first '*'
ThroughStar(path) ==
  LET first(stars) == SubSeq(path, 1, CHOOSE i \in stars : \A j \in stars : i <= j)
  IN  first({i \in 1..Len(path) : path[i] = "*"})

\* C30: in a path query, a '*' segment ends the traversal: applied to an
\* array the result is the array itself, applied to an object it is the
\* sequence of its values, applied to anything else the result is absent;
\* every segment that follows '*' in the path is ignored (the query a.*.b
\* returns the same value as a.*), and a finding reports that value.
C30_StarEndsTraversal ==
  \A k \in StarCalls :
    LET call == evals[k]
        value == ValueAt(call.rule, call.content)
    IN  /\ value = StarOf(BeforeStar(call.content, call.rule.detect.path))
        /\ value = getJsonPath(JSONparse(call.content).val, ThroughStar(call.rule.detect.path))
        /\ value.k \in {"array", "undefined"}
        /\ call.returned.findings # <<>> =>
             /\ value.k = "array"
             /\ call.returned.findings[1].match =
                  sliceTo(JSONstringify(value).text, MatchTruncation)

\* a.*.b on a document whose a is an object: the finding reports the values
\* of a, the segment b is not applied to them
C30_Witness ==
  \E k \in StarCalls :
    /\ evals[k].rule.detect.path = <<"a", ".", "*", ".", "b">>
    /\ BeforeStar(evals[k].content, evals[k].rule.detect.path).k = "object"
    /\ Len(evals[k].returned.findings) = 1
    /\ evals[k].returned.findings[1].match = <<"[", "\"", "x", "\"", "]">>

\* C28: in the extension, cancelling the progress notification of a runScan
\* invocation aborts the Scanner that this same invocation created, for
\* every interleaving of overlapping runScan invocations; and deactivate()
\* aborts every scan still running.
C28_CancelAbortsOwnScanner ==
  /\ \A i \in 1..MaxRuns : ext.runs[i].cancelled => ext.runs[i].aborted
  /\ ext.deactivated =>
       \A i \in 1..MaxRuns : ext.runs[i].state = "scanning" => ext.runs[i].aborted
====
